---- MODULE Spec2Model ----
(***************************************************************************)
(* State-machine model of the iron-condor trading bot: the scan that       *)
(* opens structures (TradingBot.scan_and_open_positions), the four-leg     *)
(* open with fill verification and rollback (OrderManager), the monitor    *)
(* cycle that evaluates exit conditions and closes structures              *)
(* (PositionMonitor), against an exchange that answers or fails every call *)
(* and that may fill a working order at any time.                          *)
(*                                                                         *)
(* One thread of control runs the scheduled jobs one after the other       *)
(* (trading_bot.py:349-351); pc is its position.  The loops that only wait *)
(* for the exchange (_verify_order_filled, _close_leg) are operators over  *)
(* the answers the exchange gives to their successive calls.               *)
(*                                                                         *)
(* Money, prices and sizes are integers in the smallest unit of the model, *)
(* so that round(pnl, 2) of position_monitor.py:86 is exact on them.       *)
(***************************************************************************)
EXTENDS Integers, Sequences, FiniteSets, TLC

\* ------------------------------------------------------------------------
\* Program constants
\* ------------------------------------------------------------------------
max_retries == 3
max_wait == 5
close_before_expiry_hours == 24
risk_per_condor_pct == 1
max_portfolio_risk_pct == 3

\* ------------------------------------------------------------------------
\* Bounds of the model
\* ------------------------------------------------------------------------
MaxCondors == 2
MaxTime == 12
TickHours == 12
EntryHours == 30
MaxMark == 1
MaxSpot == 2
MaxQty == 2
MaxAbandoned == 1
MaxCycles == 1
MaxCloseFails == 1
MonTracked == 3

None == "None"
Absent == "absent"
\* an optional number is <<>> (None) or <<n>>
NoValue == <<>>
Some(n) == <<n>>

currencies == <<"BTC", "ETH">>
Legs == 1 .. 4
Instruments == {<<currencies[i], l>> : i \in 1 .. Len(currencies), l \in Legs}

\* sides of the legs list of open_iron_condor and of get_condor_pnl:
\* long put, short put, short call, long call
OpenSide == <<"buy", "sell", "sell", "buy">>
\* sides of the legs list of close_iron_condor
CloseSide == <<"sell", "buy", "buy", "sell">>

\* _rollback_orders: the side that closes a leg opened on original_side
ReverseSide(original_side) == IF original_side = "buy" THEN "sell" ELSE "buy"

Sgn(side) == IF side = "buy" THEN 1 ELSE -1

\* the exchange account is followed up to MaxQty contracts per instrument
Clamp(x) == IF x > MaxQty THEN MaxQty ELSE IF x < -MaxQty THEN -MaxQty ELSE x

BoolStr(b) == IF b THEN "True" ELSE "False"

\* ------------------------------------------------------------------------
\* State
\* ------------------------------------------------------------------------
VARIABLES
    now,               \* wall clock, hours
    condors,           \* the live IronCondor objects, by id
    built,             \* structures built so far
    open_condors,      \* PositionMonitor.open_condors: ids in insertion order
    pc,                \* position of the single thread of control
    scanIdx,           \* index into currencies of the running scan
    cur,               \* id of the structure being opened or closed (0: none)
    leg,               \* leg being executed or closed
    attempt,           \* attempt counter of _execute_leg
    idx,               \* _rollback_orders / close_iron_condor: index into the legs list
    opened_orders,     \* open_iron_condor: legs opened so far
    ctx,               \* caller of _close_leg: "rollback", "close" or "none"
    all_closed,        \* close_iron_condor: all_closed
    result,            \* value returned by open_iron_condor / close_iron_condor
    pos,               \* exchange: filled position per instrument
    working,           \* exchange: working (unfilled, live) orders per instrument
    abandoned,         \* exchange: orders left unresolved over a whole polling window
    closeFails,        \* exchange: _close_leg calls that got no close accepted
    toCheck,           \* monitor_positions: structures still to evaluate
    exitRes,           \* monitor_positions: (should_exit, reason) of the current structure
    condors_to_close,  \* monitor_positions: condors_to_close
    stats,             \* monitor_positions: stats
    cycles,            \* monitor cycles run so far
    hist,              \* calls made by the running open / close (history)
    call               \* a function call under test: arguments and returned value

vars == <<now, condors, built, open_condors, pc, scanIdx, cur, leg, attempt, idx,
          opened_orders, ctx, all_closed, result, pos, working, abandoned, closeFails, toCheck,
          exitRes, condors_to_close, stats, cycles, hist, call>>

botVars == <<scanIdx, cur, leg, attempt, idx, opened_orders, ctx, all_closed, result>>
monVars == <<toCheck, exitRes, condors_to_close, stats, cycles>>
exchVars == <<pos, working, abandoned, closeFails>>

\* ------------------------------------------------------------------------
\* Structures
\* ------------------------------------------------------------------------
\* IronCondorBuilder.build_condor: the populated structure.  The financial
\* fields are those of a structure of size 1 with credit 2 under
\* tp_ratio 1/2 and sl_mult 1.
NewCondor(id, currency, t, max_loss) ==
    [id |-> id, currency |-> currency, expiration |-> t + EntryHours,
     credit_received |-> 2, max_loss |-> max_loss, size |-> 1,
     take_profit_target |-> 1, stop_loss_target |-> -2,
     status |-> "open", close_time |-> NoValue, close_reason |-> None,
     realized_pnl |-> NoValue]

MaxLossChoices == {1}
EquityChoices == {100, 200}

\* ids of build_condor are currency, expiration and the second of the
\* build; the model numbers the structures in the order they are built
FreshId == built + 1

\* the objects of f other than those of S
Drop(f, S) == [i \in DOMAIN f \ S |-> f[i]]

Instr(c, l) == <<condors[c].currency, l>>

Range(f) == {f[i] : i \in DOMAIN f}

RECURSIVE WithoutId(_, _)
WithoutId(seq, id) ==
    IF seq = <<>> THEN <<>>
    ELSE IF Head(seq) = id THEN WithoutId(Tail(seq), id)
    ELSE <<Head(seq)>> \o WithoutId(Tail(seq), id)

\* PositionMonitor.get_total_risk_exposure
RECURSIVE get_total_risk_exposure(_, _)
get_total_risk_exposure(objs, tracked) ==
    IF tracked = <<>> THEN 0
    ELSE objs[Head(tracked)].max_loss + get_total_risk_exposure(objs, Tail(tracked))

\* variant: a new structure is denied already when it would exactly fill
\* the portfolio budget
can_open_below_budget(equity, objs, tracked) ==
    LET current_risk == get_total_risk_exposure(objs, tracked)
    IN  ~ (100 * current_risk + equity * risk_per_condor_pct
               >= equity * max_portfolio_risk_pct)

\* RiskManager.can_open_new_position; the fractions are percentages, so
\* both sides of the comparison are multiplied by 100
can_open_new_position(equity, objs, tracked) ==
    LET current_risk == get_total_risk_exposure(objs, tracked)
        max_risk100 == equity * max_portfolio_risk_pct
        new_condor_risk100 == equity * risk_per_condor_pct
    IN  ~ (100 * current_risk + new_condor_risk100 > max_risk100)

\* variant: only the portfolio gate is asked
validate_trade_gate_only(expected_max_loss, equity, objs, tracked) ==
    can_open_new_position(equity, objs, tracked)

\* RiskManager.validate_trade
validate_trade(expected_max_loss, equity, objs, tracked) ==
    LET risk100 == equity * risk_per_condor_pct
    IN  /\ ~ (1000 * expected_max_loss > risk100 * 15)
        /\ ~ (1000 * expected_max_loss < risk100 * 2)
        /\ can_open_new_position(equity, objs, tracked)

\* ------------------------------------------------------------------------
\* Initial state
\* ------------------------------------------------------------------------
\* history of the running open_iron_condor / close_iron_condor call:
\*   sent        order placements attempted for the current leg
\*   placedLegs  legs for which an order placement was attempted
\*   filledSeen  legs for which get_order_state answered 'filled'
\*   closeSides  <<leg, side>> of every _close_leg call
\*   failedLeg   leg for which _execute_leg returned False (0: none)
\*   closeFailed legs for which _close_leg returned False
\*   over        some order was polled more than max_wait times, or some
\*               _close_leg made more than max_retries attempts
\*   short       some _close_leg returned False after fewer than max_retries
\*               attempts
NoHist == [sent |-> 0, placedLegs |-> {}, filledSeen |-> {}, closeSides |-> {},
           failedLeg |-> 0, closeFailed |-> {}, over |-> FALSE, short |-> FALSE]

NoStats == [total_monitored |-> 0, closed_tp |-> 0, closed_sl |-> 0,
            closed_expiry |-> 0, errors |-> 0]

NoExit == [should_exit |-> FALSE, reason |-> "", fetches |-> 0]

\* a call of a function of PositionMonitor on its own: the function, the
\* time of the call, the exchange's quotes, and the values returned
NoCall == [fn |-> "none", t |-> 0, spot_price |-> 0, books |-> [l \in Legs |-> -1],
           pnl |-> NoValue, exit |-> NoExit]

InitBot ==
    /\ now = 0
    /\ condors = <<>>
    /\ built = 0
    /\ open_condors = <<>>
    /\ pc = "idle"
    /\ scanIdx = 0
    /\ cur = 0
    /\ leg = 0
    /\ attempt = 0
    /\ idx = 0
    /\ opened_orders = <<>>
    /\ ctx = "none"
    /\ all_closed = TRUE
    /\ result = None
    /\ pos = [i \in Instruments |-> 0]
    /\ working = [i \in Instruments |-> 0]
    /\ abandoned = 0
    /\ closeFails = 0
    /\ toCheck = <<>>
    /\ exitRes = NoExit
    /\ condors_to_close = <<>>
    /\ stats = NoStats
    /\ cycles = 0
    /\ hist = NoHist

Init ==
    /\ InitBot
    /\ call = NoCall

\* ------------------------------------------------------------------------
\* Environment
\* ------------------------------------------------------------------------
\* time passes between two scheduled jobs
Tick ==
    /\ pc = "idle"
    /\ now < MaxTime
    /\ now' = now + TickHours
    /\ UNCHANGED <<condors, built, open_condors, pc, botVars, exchVars, monVars, hist, call>>

\* the exchange fills an order that _execute_leg left working on
\* instrument i; such orders are opening orders of the leg
ExchangeFill(i) ==
    /\ working[i] > 0
    /\ working' = [working EXCEPT ![i] = @ - 1]
    /\ pos' = [pos EXCEPT ![i] = Clamp(@ + Sgn(OpenSide[i[2]]))]
    /\ UNCHANGED <<now, condors, built, open_condors, pc, botVars, abandoned, closeFails, monVars,
                   hist, call>>

\* the exchange cancels (or expires) such an order
ExchangeCancel(i) ==
    /\ working[i] > 0
    /\ working' = [working EXCEPT ![i] = @ - 1]
    /\ UNCHANGED <<now, condors, built, open_condors, pc, botVars, pos, abandoned, closeFails,
                   monVars, hist, call>>

\* ------------------------------------------------------------------------
\* TradingBot.scan_and_open_positions
\* ------------------------------------------------------------------------
\* the scan starts when the portfolio gate allows a new position; a denied
\* gate returns at once and changes nothing
ScanStart ==
    /\ pc = "idle"
    /\ \E equity \in EquityChoices : can_open_new_position(equity, condors, open_condors)
    /\ pc' = "scan"
    /\ scanIdx' = 1
    /\ UNCHANGED <<now, condors, built, open_condors, cur, leg, attempt, idx, opened_orders, ctx,
                   all_closed, result, exchVars, monVars, hist, call>>

\* the for loop over self.currencies moves to the next currency or ends
NextCurrency ==
    IF scanIdx < Len(currencies)
    THEN /\ scanIdx' = scanIdx + 1
         /\ pc' = "scan"
    ELSE /\ scanIdx' = 0
         /\ pc' = "idle"

\* a currency is skipped: no spot price, expiration, chain or IV, the IV
\* filter refuses, build_condor returns None or validate_trade rejects
ScanSkip ==
    /\ pc = "scan"
    /\ NextCurrency
    /\ UNCHANGED <<now, condors, built, open_condors, cur, leg, attempt, idx, opened_orders, ctx,
                   all_closed, result, exchVars, monVars, hist, call>>

\* a structure is built and validated, and open_iron_condor is entered
ScanOpen ==
    /\ pc = "scan"
    /\ built < MaxCondors
    /\ built' = built + 1
    /\ \E max_loss \in MaxLossChoices, equity \in EquityChoices :
         /\ validate_trade(max_loss, equity, condors, open_condors)
         /\ condors' = condors @@
                (FreshId :> NewCondor(FreshId, currencies[scanIdx], now, max_loss))
    /\ cur' = FreshId
    /\ leg' = 1
    /\ attempt' = 0
    /\ opened_orders' = <<>>
    /\ hist' = NoHist
    /\ pc' = "place"
    /\ UNCHANGED <<now, open_condors, scanIdx, idx, ctx, all_closed, result, exchVars,
                   monVars, call>>

\* add_condor
add_condor(tracked, id) == IF id \in Range(tracked) THEN tracked ELSE Append(tracked, id)

\* variant: the structure is tracked whatever open_iron_condor returned
TrackAlways(tracked, id, success) == add_condor(tracked, id)

\* lines 247-250: the structure is tracked if open_iron_condor returned True
TrackAfterOpen(tracked, id, success) ==
    IF success = "True" THEN add_condor(tracked, id) ELSE tracked

\* lines 247-259: add_condor on success, then the gate is asked again; a
\* structure that is not tracked is referenced by nothing and ceases to exist
ScanAfterOpen ==
    /\ pc = "open_ret"
    /\ open_condors' = TrackAfterOpen(open_condors, cur, result)
    /\ condors' = Drop(condors, {cur} \ Range(open_condors'))
    /\ \E equity \in EquityChoices :
         IF can_open_new_position(equity, condors', open_condors')
         THEN NextCurrency
         ELSE /\ scanIdx' = 0
              /\ pc' = "idle"
    /\ cur' = 0
    /\ leg' = 0
    /\ result' = None
    /\ opened_orders' = <<>>
    /\ hist' = NoHist
    /\ UNCHANGED <<now, built, attempt, idx, ctx, all_closed, exchVars, monVars, call>>

\* ------------------------------------------------------------------------
\* OrderManager: open_iron_condor, _execute_leg, _verify_order_filled
\* ------------------------------------------------------------------------
PollResp == {Absent, "open", "filled", "rejected", "cancelled"}
Terminal == {"filled", "rejected", "cancelled"}

\* the answers of get_order_state to the polls of one order: no answer or
\* "open" until the order reaches a final state at poll t, that state after
PollScript(t, before, final) ==
    [i \in 1 .. max_wait |-> IF i < t THEN before ELSE final]

PollScripts ==
    {PollScript(t, before, final) :
        t \in 1 .. max_wait + 1, before \in {Absent, "open"}, final \in Terminal}

\* _verify_order_filled from iteration i of range(max_wait) on
RECURSIVE verify_from(_, _)
verify_from(rs, i) ==
    IF i >= max_wait THEN [filled |-> FALSE, polls |-> i, state |-> "unknown"]
    ELSE IF rs[i + 1] = "filled" THEN [filled |-> TRUE, polls |-> i + 1, state |-> "filled"]
    ELSE IF rs[i + 1] \in {"rejected", "cancelled"}
         THEN [filled |-> FALSE, polls |-> i + 1, state |-> rs[i + 1]]
    ELSE verify_from(rs, i + 1)

\* variant: an accepted order counts as filled at its first poll
verify_order_accepted(rs) ==
    [filled |-> TRUE, polls |-> 1, state |-> IF rs[1] = "filled" THEN "filled" ELSE "open"]

verify_order_filled(rs) == verify_from(rs, 0)

\* variant: the rollback misses the leg recorded last
RollbackButLast(opened) == SubSeq(opened, 1, Len(opened) - 1)

\* _rollback_orders iterates over the legs open_iron_condor recorded
RollbackLegs(opened) == opened

\* the legs list iterated by the running _close_leg caller
CloseList == IF ctx = "rollback" THEN RollbackLegs(opened_orders) ELSE <<1, 2, 3, 4>>

\* the side handed to _close_leg for leg l
CloseSideOf(l) == IF ctx = "rollback" THEN ReverseSide(OpenSide[l]) ELSE CloseSide[l]

\* variant: the loop runs one iteration too many
MoreAttemptsOff(a) == a < max_retries

\* the for loop of _execute_leg over range(self.max_retries) has a further
\* iteration after iteration a
MoreAttempts(a) == a + 1 < max_retries

\* variant: a leg whose attempts are used up is left behind and the next
\* leg is placed
ContinueAfterFailure(h) ==
    IF MoreAttempts(attempt)
    THEN /\ attempt' = attempt + 1
         /\ pc' = "place"
         /\ hist' = h
         /\ UNCHANGED <<leg, idx, opened_orders, ctx, result>>
    ELSE /\ hist' = [h EXCEPT !.failedLeg = leg, !.sent = 0]
         /\ attempt' = 0
         /\ UNCHANGED <<opened_orders, idx, ctx>>
         /\ IF leg = Len(OpenSide)
            THEN /\ pc' = "open_ret"
                 /\ result' = "False"
                 /\ UNCHANGED leg
            ELSE /\ pc' = "place"
                 /\ leg' = leg + 1
                 /\ UNCHANGED result

\* an iteration of _execute_leg ended without a fill: retry, or return False
\* to open_iron_condor, which rolls back and returns False
RetryOrFail(h) ==
    IF MoreAttempts(attempt)
    THEN /\ attempt' = attempt + 1
         /\ pc' = "place"
         /\ hist' = h
         /\ UNCHANGED <<leg, idx, opened_orders, ctx, result>>
    ELSE /\ hist' = [h EXCEPT !.failedLeg = leg]
         /\ attempt' = 0
         /\ UNCHANGED opened_orders
         /\ IF RollbackLegs(opened_orders) = <<>>
            THEN /\ pc' = "open_ret"
                 /\ result' = "False"
                 /\ UNCHANGED <<leg, idx, ctx>>
            ELSE /\ pc' = "close_leg"
                 /\ ctx' = "rollback"
                 /\ idx' = 1
                 /\ leg' = RollbackLegs(opened_orders)[1]
                 /\ UNCHANGED result

\* _execute_leg returned True: the leg is recorded and the next one starts
LegSucceeded(h) ==
    /\ hist' = [h EXCEPT !.sent = 0]
    /\ opened_orders' = Append(opened_orders, leg)
    /\ attempt' = 0
    /\ UNCHANGED <<idx, ctx>>
    /\ IF leg = Len(OpenSide)
       THEN /\ pc' = "open_ret"
            /\ result' = "True"
            /\ UNCHANGED leg
       ELSE /\ pc' = "place"
            /\ leg' = leg + 1
            /\ UNCHANGED result

\* one iteration of the for loop of _execute_leg: the order placement
\* (client.buy / client.sell), then _verify_order_filled on the accepted
\* order.  An order that is not reported filled, rejected or cancelled
\* within the window stays working: lines 266-271 read its state and
\* cancel nothing.
ExecuteAttempt ==
    /\ pc = "place"
    /\ LET i == Instr(cur, leg)
           h0 == [hist EXCEPT !.sent = @ + 1, !.placedLegs = @ \cup {leg}]
       IN  \/ \* no response to the placement, or an exception
              /\ RetryOrFail(h0)
              /\ UNCHANGED <<pos, working, abandoned>>
           \/ \E v \in {verify_order_filled(rs) : rs \in PollScripts} :
                LET h == [h0 EXCEPT !.over = @ \/ v.polls > max_wait,
                                    !.filledSeen = IF v.state = "filled"
                                                   THEN @ \cup {leg} ELSE @]
                IN  /\ v.state = "unknown" => abandoned < MaxAbandoned
                    /\ abandoned' = IF v.state = "unknown" THEN abandoned + 1 ELSE abandoned
                    /\ working' = IF v.state = "unknown"
                                  THEN [working EXCEPT ![i] = @ + 1] ELSE working
                    /\ pos' = IF v.state = "filled"
                              THEN [pos EXCEPT ![i] =
                                      Clamp(@ + Sgn(OpenSide[leg]) * condors[cur].size)]
                              ELSE pos
                    /\ IF v.filled THEN LegSucceeded(h) ELSE RetryOrFail(h)
    /\ UNCHANGED <<now, condors, built, open_condors, scanIdx, cur, all_closed, closeFails,
                   monVars, call>>

\* ------------------------------------------------------------------------
\* OrderManager: _close_leg under _rollback_orders and close_iron_condor
\* ------------------------------------------------------------------------
\* the answers to the attempts of one _close_leg call: <<close_position,
\* manual order>>; an exception has the effect of two absent answers
CloseAnswers == {<<Absent, Absent>>, <<Absent, "ok">>, <<"ok", Absent>>}
CloseScripts == [1 .. max_retries -> CloseAnswers]

\* _close_leg from iteration a of range(self.max_retries) on, for an
\* instrument holding position p
RECURSIVE close_from(_, _, _, _, _)
close_from(cs, a, side, size, p) ==
    IF a >= max_retries THEN [closed |-> FALSE, tries |-> a, pos |-> p]
    ELSE IF cs[a + 1][1] = "ok" THEN [closed |-> TRUE, tries |-> a + 1, pos |-> 0]
    ELSE IF cs[a + 1][2] = "ok"
         THEN [closed |-> TRUE, tries |-> a + 1, pos |-> Clamp(p + Sgn(side) * size)]
    ELSE close_from(cs, a + 1, side, size, p)

close_leg(cs, side, size, p) == close_from(cs, 0, side, size, p)

\* variant: close_iron_condor returns at the first leg that failed to close
LegCloseStopAtFailure(ok) ==
    LET ac == IF ctx = "rollback" THEN all_closed ELSE all_closed /\ ok
    IN  /\ all_closed' = ac
        /\ IF idx < Len(CloseList) /\ ac
           THEN /\ idx' = idx + 1
                /\ leg' = CloseList[idx + 1]
                /\ UNCHANGED <<pc, ctx, result>>
           ELSE /\ idx' = 0
                /\ UNCHANGED leg
                /\ ctx' = "none"
                /\ pc' = IF ctx = "rollback" THEN "open_ret"
                         ELSE IF ctx = "stop" THEN "stop_ret" ELSE "close_ret"
                /\ result' = IF ctx = "rollback" THEN "False" ELSE BoolStr(ac)

\* variant: a leg that failed to close ends _rollback_orders
LegCloseRollbackStops(ok) ==
    LET ac == IF ctx = "rollback" THEN all_closed ELSE all_closed /\ ok
    IN  /\ all_closed' = ac
        /\ IF idx < Len(CloseList) /\ (ctx = "rollback" => ok)
           THEN /\ idx' = idx + 1
                /\ leg' = CloseList[idx + 1]
                /\ UNCHANGED <<pc, ctx, result>>
           ELSE /\ idx' = 0
                /\ UNCHANGED leg
                /\ ctx' = "none"
                /\ pc' = IF ctx = "rollback" THEN "open_ret"
                         ELSE IF ctx = "stop" THEN "stop_ret" ELSE "close_ret"
                /\ result' = IF ctx = "rollback" THEN "False" ELSE BoolStr(ac)

\* _close_leg returned for the current leg: the caller goes to its next leg
\* or returns
LegCloseDone(ok) ==
    LET ac == IF ctx = "rollback" THEN all_closed ELSE all_closed /\ ok
    IN  /\ all_closed' = ac
        /\ IF idx < Len(CloseList)
           THEN /\ idx' = idx + 1
                /\ leg' = CloseList[idx + 1]
                /\ UNCHANGED <<pc, ctx, result>>
           ELSE /\ idx' = 0
                /\ UNCHANGED leg
                /\ ctx' = "none"
                /\ pc' = IF ctx = "rollback" THEN "open_ret"
                         ELSE IF ctx = "stop" THEN "stop_ret" ELSE "close_ret"
                /\ result' = IF ctx = "rollback" THEN "False" ELSE BoolStr(ac)

\* one _close_leg call.  close_position answers only for an instrument that
\* holds a position.
CloseLeg ==
    /\ pc = "close_leg"
    /\ LET i == Instr(cur, leg)
           side == CloseSideOf(leg)
           answers == {cs \in CloseScripts :
                          (\E a \in 1 .. max_retries : cs[a][1] = "ok") => pos[i] # 0}
       IN  \E r \in {close_leg(cs, side, condors[cur].size, pos[i]) : cs \in answers} :
             /\ ~ r.closed => closeFails < MaxCloseFails
             /\ closeFails' = IF r.closed THEN closeFails ELSE closeFails + 1
             /\ pos' = [pos EXCEPT ![i] = r.pos]
             /\ hist' = [hist EXCEPT !.over = @ \/ r.tries > max_retries,
                                     !.short = @ \/ (~ r.closed /\ r.tries < max_retries),
                                     !.closeFailed = IF r.closed THEN @ ELSE @ \cup {leg},
                                     !.closeSides = @ \cup {<<leg, side>>}]
             /\ LegCloseDone(r.closed)
    /\ UNCHANGED <<now, condors, built, open_condors, scanIdx, cur, attempt, opened_orders,
                   working, abandoned, monVars, call>>

\* ------------------------------------------------------------------------
\* PositionMonitor: get_condor_pnl, check_exit_conditions
\* ------------------------------------------------------------------------
\* get_index_price: 0 stands for an absent (or zero) price
Spots == 0 .. MaxSpot
\* get_order_book of the four legs: -1 stands for an absent book, any
\* other value is the book's mark_price
Books == [Legs -> -1 .. MaxMark]

\* value of one leg in get_condor_pnl; a leg whose book is absent is
\* skipped by `continue` (lines 67-69)
LegValue(condor, l, spot_price, books) ==
    IF books[l] = -1 THEN 0
    ELSE IF OpenSide[l] = "buy" THEN books[l] * condor.size * spot_price
    ELSE -books[l] * condor.size * spot_price

\* PositionMonitor.get_condor_pnl
get_condor_pnl(condor, spot_price, books) ==
    IF spot_price = 0 THEN NoValue
    ELSE Some(condor.credit_received
              + LegValue(condor, 1, spot_price, books)
              + LegValue(condor, 2, spot_price, books)
              + LegValue(condor, 3, spot_price, books)
              + LegValue(condor, 4, spot_price, books))

\* requests get_condor_pnl sends to the exchange
PnlFetches(spot_price) == IF spot_price = 0 THEN 1 ELSE 1 + Len(OpenSide)

\* variant: the P&L is fetched and tested before the expiry
check_exit_pnl_first(condor, t, hours_before_expiry, spot_price, books) ==
    LET time_to_expiry == condor.expiration - t
        pnl == get_condor_pnl(condor, spot_price, books)
        n == PnlFetches(spot_price)
    IN  IF pnl # NoValue /\ pnl[1] >= condor.take_profit_target
        THEN [should_exit |-> TRUE, reason |-> "take_profit", fetches |-> n]
        ELSE IF pnl # NoValue /\ pnl[1] <= condor.stop_loss_target
        THEN [should_exit |-> TRUE, reason |-> "stop_loss", fetches |-> n]
        ELSE IF time_to_expiry * 3600 < hours_before_expiry * 3600
        THEN [should_exit |-> TRUE, reason |-> "expiry", fetches |-> n]
        ELSE [should_exit |-> FALSE, reason |-> "", fetches |-> n]

\* variant: the targets are compared strictly
check_exit_strict(condor, t, hours_before_expiry, spot_price, books) ==
    LET time_to_expiry == condor.expiration - t
        pnl == get_condor_pnl(condor, spot_price, books)
        n == PnlFetches(spot_price)
    IN  IF time_to_expiry * 3600 < hours_before_expiry * 3600
        THEN [should_exit |-> TRUE, reason |-> "expiry", fetches |-> 0]
        ELSE IF pnl = NoValue
        THEN [should_exit |-> FALSE, reason |-> "", fetches |-> n]
        ELSE IF pnl[1] > condor.take_profit_target
        THEN [should_exit |-> TRUE, reason |-> "take_profit", fetches |-> n]
        ELSE IF pnl[1] < condor.stop_loss_target
        THEN [should_exit |-> TRUE, reason |-> "stop_loss", fetches |-> n]
        ELSE [should_exit |-> FALSE, reason |-> "", fetches |-> n]

\* PositionMonitor.check_exit_conditions at time t; fetches counts the
\* requests sent to the exchange.  The reason is the kind of exit: the
\* text the code appends to it (the P&L) is read by nothing but the log.
check_exit_conditions(condor, t, hours_before_expiry, spot_price, books) ==
    LET time_to_expiry == condor.expiration - t
        pnl == get_condor_pnl(condor, spot_price, books)
    IN  IF time_to_expiry * 3600 < hours_before_expiry * 3600
        THEN [should_exit |-> TRUE, reason |-> "expiry", fetches |-> 0]
        ELSE IF pnl = NoValue
        THEN [should_exit |-> FALSE, reason |-> "", fetches |-> PnlFetches(spot_price)]
        ELSE IF pnl[1] >= condor.take_profit_target
        THEN [should_exit |-> TRUE, reason |-> "take_profit",
              fetches |-> PnlFetches(spot_price)]
        ELSE IF pnl[1] <= condor.stop_loss_target
        THEN [should_exit |-> TRUE, reason |-> "stop_loss",
              fetches |-> PnlFetches(spot_price)]
        ELSE [should_exit |-> FALSE, reason |-> "", fetches |-> PnlFetches(spot_price)]

\* ------------------------------------------------------------------------
\* PositionMonitor.monitor_positions
\* ------------------------------------------------------------------------
\* variant: the structure stays in the tracked set
keep_condor(tracked, id) == tracked

\* remove_condor
remove_condor(tracked, id) == WithoutId(tracked, id)

\* manage_open_positions reaches monitor_positions when structures are
\* tracked (trading_bot.py:276-288): lines 140-149
MonitorStart ==
    /\ pc = "idle"
    /\ open_condors # <<>>
    /\ cycles < MaxCycles
    /\ cycles' = cycles + 1
    /\ stats' = [NoStats EXCEPT !.total_monitored = Len(open_condors)]
    /\ toCheck' = open_condors
    /\ condors_to_close' = <<>>
    /\ exitRes' = NoExit
    /\ pc' = "check"
    /\ UNCHANGED <<now, condors, built, open_condors, botVars, exchVars, hist, call>>

\* lines 154-156: check_exit_conditions of the next structure
MonitorCheck ==
    /\ pc = "check"
    /\ \E r \in {check_exit_conditions(condors[Head(toCheck)], now,
                                        close_before_expiry_hours, spot_price, books) :
                  spot_price \in Spots, books \in Books} :
         exitRes' = r
    /\ pc' = "checked"
    /\ UNCHANGED <<now, condors, built, open_condors, botVars, exchVars, toCheck,
                   condors_to_close, stats, cycles, hist, call>>

\* variant: the error of the log line is swallowed without being counted
FlagUncounted(pnl) == IF pnl = NoValue THEN "skipped" ELSE "flagged"

\* what the evaluation loop does with a structure whose exit condition is
\* met and whose P&L, fetched again for the log line, is pnl: the log line
\* formats pnl as a number (line 160), so an unavailable pnl raises before
\* the append of line 161 and the handler of line 163 counts an error
FlagOutcome(pnl) == IF pnl = NoValue THEN "error" ELSE "flagged"

\* lines 158-165: the structure is flagged for closing, then the loop goes on
MonitorFlag ==
    /\ pc = "checked"
    /\ LET c == Head(toCheck)
       IN  IF exitRes.should_exit
           THEN \E pnl \in {get_condor_pnl(condors[c], spot_price, books) :
                              spot_price \in Spots, books \in Books} :
                  LET o == FlagOutcome(pnl)
                  IN  /\ condors_to_close' =
                            IF o = "flagged"
                            THEN Append(condors_to_close, <<c, exitRes.reason>>)
                            ELSE condors_to_close
                      /\ stats' = IF o = "error"
                                  THEN [stats EXCEPT !.errors = @ + 1] ELSE stats
           ELSE UNCHANGED <<condors_to_close, stats>>
    /\ toCheck' = Tail(toCheck)
    /\ exitRes' = NoExit
    /\ pc' = IF Tail(toCheck) = <<>> THEN "close_next" ELSE "check"
    /\ UNCHANGED <<now, condors, built, open_condors, botVars, exchVars, cycles, hist, call>>

\* the objects only a finished iteration referenced cease to exist
Live(objs, tracked, pending) ==
    Drop(objs, DOMAIN objs \ (Range(tracked) \cup {e[1] : e \in Range(pending)}))

\* lines 168-170: close_iron_condor is entered for the next flagged structure
MonitorCloseNext ==
    /\ pc = "close_next"
    /\ condors_to_close # <<>>
    /\ condors' = Live(condors, open_condors, condors_to_close)
    /\ cur' = Head(condors_to_close)[1]
    /\ ctx' = "close"
    /\ idx' = 1
    /\ leg' = 1
    /\ all_closed' = TRUE
    /\ hist' = NoHist
    /\ pc' = "close_leg"
    /\ UNCHANGED <<now, built, open_condors, scanIdx, attempt, opened_orders, result,
                   exchVars, monVars, call>>

\* the close fields written by lines 174-177
CloseFields(condor, pnl, t, reason) ==
    [condor EXCEPT !.realized_pnl = pnl, !.close_time = Some(t),
                   !.close_reason = reason, !.status = "closed"]

\* variant: a structure closed at expiry is not counted
CountTpSl(st, reason) ==
    IF reason = "take_profit" THEN [st EXCEPT !.closed_tp = @ + 1]
    ELSE IF reason = "stop_loss" THEN [st EXCEPT !.closed_sl = @ + 1]
    ELSE st

\* lines 180-185
CountClosed(st, reason) ==
    IF reason = "take_profit" THEN [st EXCEPT !.closed_tp = @ + 1]
    ELSE IF reason = "stop_loss" THEN [st EXCEPT !.closed_sl = @ + 1]
    ELSE IF reason = "expiry" THEN [st EXCEPT !.closed_expiry = @ + 1]
    ELSE st

\* lines 172-199: close_iron_condor returned.  On success the P&L is
\* fetched, the close fields are written, the structure is removed and the
\* log line of 192 formats the P&L, which raises when it is unavailable.
MonitorAfterClose ==
    /\ pc = "close_ret"
    /\ LET reason == Head(condors_to_close)[2]
       IN  IF result = "True"
           THEN \E pnl \in {get_condor_pnl(condors[cur], spot_price, books) :
                              spot_price \in Spots, books \in Books} :
                  LET st == CountClosed(stats, reason)
                  IN  /\ condors' = [condors EXCEPT
                                        ![cur] = CloseFields(@, pnl, now, reason)]
                      /\ open_condors' = remove_condor(open_condors, cur)
                      /\ stats' = IF pnl = NoValue
                                  THEN [st EXCEPT !.errors = @ + 1] ELSE st
           ELSE /\ stats' = [stats EXCEPT !.errors = @ + 1]
                /\ UNCHANGED <<condors, open_condors>>
    /\ condors_to_close' = Tail(condors_to_close)
    /\ cur' = 0
    /\ leg' = 0
    /\ result' = None
    /\ all_closed' = TRUE
    /\ hist' = NoHist
    /\ pc' = "close_next"
    /\ UNCHANGED <<now, built, scanIdx, attempt, idx, opened_orders, ctx, exchVars,
                   toCheck, exitRes, cycles, call>>

\* line 201: the statistics are returned; the closed structures, which
\* only condors_to_close referenced, cease to exist
MonitorReturn ==
    /\ pc = "close_next"
    /\ condors_to_close = <<>>
    /\ stats' = NoStats
    /\ pc' = "idle"
    /\ condors' = Live(condors, open_condors, condors_to_close)
    /\ UNCHANGED <<now, built, open_condors, botVars, exchVars, toCheck, exitRes,
                   condors_to_close, cycles, hist, call>>

\* ------------------------------------------------------------------------
\* RiskManager.emergency_stop
\* ------------------------------------------------------------------------
\* the structures emergency_stop iterates: list(open_condors.values())
StopList(tracked) == [n \in 1 .. Len(tracked) |-> <<tracked[n], "emergency_stop">>]

\* variant: only the first tracked structure is closed
StopFirstOnly(tracked) == SubSeq(StopList(tracked), 1, 1)

\* lines 249-254: cancel_all, whose answer is not read, then the list of
\* the tracked structures is taken.  The exchange cancels the working
\* orders when it answers the request.
EmergencyStop ==
    /\ pc = "idle"
    /\ cycles < MaxCycles
    /\ cycles' = cycles + 1
    /\ \E answered \in BOOLEAN :
         working' = IF answered THEN [i \in Instruments |-> 0] ELSE working
    /\ condors_to_close' = StopList(open_condors)
    /\ pc' = "stop_next"
    /\ UNCHANGED <<now, condors, built, open_condors, botVars, pos, abandoned, closeFails,
                   toCheck, exitRes, stats, hist, call>>

\* lines 254-257: close_iron_condor is entered for the next structure
EmergencyCloseNext ==
    /\ pc = "stop_next"
    /\ condors_to_close # <<>>
    /\ cur' = Head(condors_to_close)[1]
    /\ ctx' = "stop"
    /\ idx' = 1
    /\ leg' = 1
    /\ all_closed' = TRUE
    /\ hist' = NoHist
    /\ pc' = "close_leg"
    /\ UNCHANGED <<now, condors, built, open_condors, scanIdx, attempt, opened_orders,
                   result, exchVars, monVars, call>>

\* variant: a structure that failed to close ends the loop
EmergencyAbortOnFailure ==
    /\ pc = "stop_ret"
    /\ condors_to_close' = IF result = "False" THEN <<>> ELSE Tail(condors_to_close)
    /\ cur' = 0
    /\ leg' = 0
    /\ result' = None
    /\ all_closed' = TRUE
    /\ hist' = NoHist
    /\ pc' = "stop_next"
    /\ UNCHANGED <<now, condors, built, open_condors, scanIdx, attempt, idx, opened_orders,
                   ctx, exchVars, toCheck, exitRes, stats, cycles, call>>

\* variant: a structure closed by the stop is removed from the tracked set
EmergencyUntrack ==
    /\ pc = "stop_ret"
    /\ open_condors' = IF result = "True" THEN remove_condor(open_condors, cur)
                       ELSE open_condors
    /\ condors_to_close' = Tail(condors_to_close)
    /\ cur' = 0
    /\ leg' = 0
    /\ result' = None
    /\ all_closed' = TRUE
    /\ hist' = NoHist
    /\ pc' = "stop_next"
    /\ UNCHANGED <<now, condors, built, scanIdx, attempt, idx, opened_orders,
                   ctx, exchVars, toCheck, exitRes, stats, cycles, call>>

\* line 257: close_iron_condor returned; its value is not read
EmergencyAfterClose ==
    /\ pc = "stop_ret"
    /\ condors_to_close' = Tail(condors_to_close)
    /\ cur' = 0
    /\ leg' = 0
    /\ result' = None
    /\ all_closed' = TRUE
    /\ hist' = NoHist
    /\ pc' = "stop_next"
    /\ UNCHANGED <<now, condors, built, open_condors, scanIdx, attempt, idx, opened_orders,
                   ctx, exchVars, toCheck, exitRes, stats, cycles, call>>

\* lines 259-260
EmergencyReturn ==
    /\ pc = "stop_next"
    /\ condors_to_close = <<>>
    /\ pc' = "idle"
    /\ UNCHANGED <<now, condors, built, open_condors, botVars, exchVars, monVars, hist,
                   call>>

Next ==
    \/ Tick
    \/ \E i \in Instruments : ExchangeFill(i)
    \/ \E i \in Instruments : ExchangeCancel(i)
    \/ ScanStart
    \/ ScanSkip
    \/ ScanOpen
    \/ ScanAfterOpen
    \/ ExecuteAttempt
    \/ CloseLeg
    \/ MonitorStart
    \/ MonitorCheck
    \/ MonitorFlag
    \/ MonitorCloseNext
    \/ MonitorAfterClose
    \/ MonitorReturn

Spec == Init /\ [][Next]_vars

\* ------------------------------------------------------------------------
\* The order engine alone: scans and opens against the exchange
\* ------------------------------------------------------------------------
NextOpen ==
    \/ Tick
    \/ \E i \in Instruments : ExchangeFill(i)
    \/ \E i \in Instruments : ExchangeCancel(i)
    \/ ScanStart
    \/ ScanSkip
    \/ ScanOpen
    \/ ScanAfterOpen
    \/ ExecuteAttempt
    \/ CloseLeg

SpecOpen == Init /\ [][NextOpen]_vars

\* ------------------------------------------------------------------------
\* The monitor alone: MonTracked structures were opened, one per tick and
\* the first at time 0, and are tracked; no further structure is built
\* ------------------------------------------------------------------------
TrackedCondor(n) ==
    NewCondor(n, currencies[((n - 1) % Len(currencies)) + 1], (1 - n) * TickHours, 1)

HeldBy(i, n) == TrackedCondor(n).currency = i[1]

InitTracked ==
    /\ now = 0
    /\ condors = [n \in 1 .. MonTracked |-> TrackedCondor(n)]
    /\ built = MonTracked
    /\ open_condors = [n \in 1 .. MonTracked |-> n]
    /\ pc = "idle"
    /\ scanIdx = 0
    /\ cur = 0
    /\ leg = 0
    /\ attempt = 0
    /\ idx = 0
    /\ opened_orders = <<>>
    /\ ctx = "none"
    /\ all_closed = TRUE
    /\ result = None
    /\ pos = [i \in Instruments |->
                Clamp(Sgn(OpenSide[i[2]]) * Cardinality({n \in 1 .. MonTracked : HeldBy(i, n)}))]
    /\ working = [i \in Instruments |-> 0]
    /\ abandoned = 0
    /\ closeFails = 0
    /\ toCheck = <<>>
    /\ exitRes = NoExit
    /\ condors_to_close = <<>>
    /\ stats = NoStats
    /\ cycles = 0
    /\ hist = NoHist
    /\ call = NoCall

NextMon ==
    \/ Tick
    \/ CloseLeg
    \/ MonitorStart
    \/ MonitorCheck
    \/ MonitorFlag
    \/ MonitorCloseNext
    \/ MonitorAfterClose
    \/ MonitorReturn

SpecMon == InitTracked /\ [][NextMon]_vars

\* ------------------------------------------------------------------------
\* The bot with an operator who may call emergency_stop between two jobs
\* ------------------------------------------------------------------------
NextStop ==
    \/ Tick
    \/ \E i \in Instruments : ExchangeFill(i)
    \/ \E i \in Instruments : ExchangeCancel(i)
    \/ ScanStart
    \/ ScanSkip
    \/ ScanOpen
    \/ ScanAfterOpen
    \/ ExecuteAttempt
    \/ CloseLeg
    \/ MonitorStart
    \/ MonitorCheck
    \/ MonitorFlag
    \/ MonitorCloseNext
    \/ MonitorAfterClose
    \/ MonitorReturn
    \/ EmergencyStop
    \/ EmergencyCloseNext
    \/ EmergencyAfterClose
    \/ EmergencyReturn

SpecStop == Init /\ [][NextStop]_vars

\* emergency_stop over the tracked structures of SpecMon
NextMonStop ==
    \/ Tick
    \/ CloseLeg
    \/ EmergencyStop
    \/ EmergencyCloseNext
    \/ EmergencyAfterClose
    \/ EmergencyReturn

SpecMonStop == InitTracked /\ [][NextMonStop]_vars

\* ------------------------------------------------------------------------
\* The functions of PositionMonitor on their own: one call of
\* get_condor_pnl or of check_exit_conditions on a structure built at time
\* 0, at any hour and under any quotes of the exchange
\* ------------------------------------------------------------------------
CallCondor == NewCondor(1, currencies[1], 0, 1)

CallTimes == 0 .. MaxTime

\* time to expiration of the structure of the call, hours
CallTte == CallCondor.expiration - call.t

InitCall ==
    /\ InitBot
    /\ call \in {[NoCall EXCEPT !.fn = "input", !.t = t, !.spot_price = spot_price,
                                !.books = books] :
                   t \in CallTimes, spot_price \in Spots, books \in Books}

CallPnl ==
    /\ call.fn = "input"
    /\ call' = [call EXCEPT !.fn = "get_condor_pnl",
                            !.pnl = get_condor_pnl(CallCondor, call.spot_price, call.books)]
    /\ UNCHANGED <<now, condors, built, open_condors, pc, botVars, exchVars, monVars, hist>>

CallExit ==
    /\ call.fn = "input"
    /\ call' = [call EXCEPT !.fn = "check_exit_conditions",
                            !.exit = check_exit_conditions(CallCondor, call.t,
                                         close_before_expiry_hours, call.spot_price,
                                         call.books)]
    /\ UNCHANGED <<now, condors, built, open_condors, pc, botVars, exchVars, monVars, hist>>

NextCall ==
    \/ CallPnl
    \/ CallExit

SpecCall == InitCall /\ [][NextCall]_vars

\* ------------------------------------------------------------------------
\* ------------------------------------------------------------------------
\* The risk gate with the account's equity held constant: scans validate
\* and open structures of any size the builder can produce, monitor cycles
\* close tracked structures.  The orders of an open or of a close are not
\* followed here; an open succeeds or fails as a whole.
\* ------------------------------------------------------------------------
MaxRiskBuilds == 5

\* expected max_loss of a built structure (max_loss_per_unit * size after
\* the size clamp of build_condor)
RiskLossChoices == 0 .. 4

\* the last decision of the Risk Manager: the equity of the account, the
\* max_loss submitted, the exposure reported by the Position Monitor at the
\* call, and the answers of can_open_new_position and of validate_trade
NoDecision(equity) ==
    [fn |-> "none", equity |-> equity, expected_max_loss |-> 0, exposure |-> 0,
     can_open |-> FALSE, valid |-> FALSE]

InitRisk ==
    /\ InitBot
    /\ call \in {NoDecision(equity) : equity \in EquityChoices}

\* trading_bot.py:169-241: the gate and validate_trade for a built structure;
\* a rejected structure is skipped (continue)
RiskValidate ==
    /\ pc = "idle"
    /\ built < MaxRiskBuilds
    /\ \E c \in 1 .. Len(currencies), max_loss \in RiskLossChoices :
         LET valid == validate_trade(max_loss, call.equity, condors, open_condors)
         IN  /\ call' = [fn |-> "validate_trade", equity |-> call.equity,
                         expected_max_loss |-> max_loss,
                         exposure |-> get_total_risk_exposure(condors, open_condors),
                         can_open |-> can_open_new_position(call.equity, condors,
                                                            open_condors),
                         valid |-> valid]
             /\ IF valid
                THEN /\ condors' = condors @@
                           (FreshId :> NewCondor(FreshId, currencies[c], now, max_loss))
                     /\ built' = built + 1
                     /\ cur' = FreshId
                     /\ pc' = "validated"
                ELSE UNCHANGED <<condors, built, cur, pc>>
    /\ UNCHANGED <<now, open_condors, scanIdx, leg, attempt, idx, opened_orders, ctx,
                   all_closed, result, exchVars, monVars, hist>>

\* trading_bot.py:247-253: open_iron_condor was invoked and returned; the
\* structure is tracked when it returned True
RiskOpen ==
    /\ pc = "validated"
    /\ \E success \in {"True", "False"} :
         /\ open_condors' = TrackAfterOpen(open_condors, cur, success)
         /\ condors' = Drop(condors, {cur} \ Range(open_condors'))
    /\ cur' = 0
    /\ pc' = "idle"
    /\ call' = [call EXCEPT !.fn = "open_iron_condor"]
    /\ UNCHANGED <<now, built, scanIdx, leg, attempt, idx, opened_orders, ctx,
                   all_closed, result, exchVars, monVars, hist>>

\* position_monitor.py:172-190: a monitor cycle closed a tracked structure
RiskClose ==
    /\ pc = "idle"
    /\ \E c \in Range(open_condors) :
         /\ open_condors' = remove_condor(open_condors, c)
         /\ condors' = Drop(condors, {c})
    /\ call' = [call EXCEPT !.fn = "close_iron_condor"]
    /\ UNCHANGED <<now, built, pc, botVars, exchVars, monVars, hist>>

NextRisk ==
    \/ RiskValidate
    \/ RiskOpen
    \/ RiskClose

SpecRisk == InitRisk /\ [][NextRisk]_vars

\* ------------------------------------------------------------------------
\* Configuration and start-up: the environment holds any settings;
\* Config.validate is asked, the bot is constructed and started, and the
\* started bot runs its scheduled routines
\* ------------------------------------------------------------------------
\* RISK_PER_CONDOR and MAX_PORTFOLIO_RISK of the environment, percent
ConfigPcts == {1, 3, 5}

Environments ==
    [DERIBIT_API_KEY : {"", "key"}, DERIBIT_API_SECRET : {"", "secret"},
     DERIBIT_ENV : {"test", "prod", "live"},
     STRATEGY_IRON_CONDOR_ENABLED : BOOLEAN, STRATEGY_SMART_MONEY_ENABLED : BOOLEAN,
     INITIAL_EQUITY : {0, 100},
     RISK_PER_CONDOR : ConfigPcts, MAX_PORTFOLIO_RISK : ConfigPcts]

\* Config.validate: True when no error was collected
validate(e) ==
    /\ e.DERIBIT_API_KEY # ""
    /\ e.DERIBIT_API_SECRET # ""
    /\ e.DERIBIT_ENV \in {"test", "prod"}
    /\ e.STRATEGY_IRON_CONDOR_ENABLED \/ e.STRATEGY_SMART_MONEY_ENABLED
    /\ e.STRATEGY_IRON_CONDOR_ENABLED => e.INITIAL_EQUITY > 0

InitConfig ==
    /\ InitBot
    /\ call \in {[fn |-> "none", environ |-> e, valid |-> FALSE, authenticated |-> FALSE,
                  running |-> FALSE, scanned |-> FALSE, monitored |-> FALSE,
                  ordered |-> FALSE] : e \in Environments}

\* config.py:157-159
ConfigValidate ==
    /\ call.fn = "none"
    /\ call' = [call EXCEPT !.fn = "Config.validate", !.valid = validate(call.environ)]
    /\ UNCHANGED <<now, condors, built, open_condors, pc, botVars, exchVars, monVars, hist>>

\* main: TradingBot() reads the environment and constructs its components,
\* start authenticates and sets running; the exchange accepts or refuses
\* credentials that are present
\* variant: start goes on whatever authenticate answers
StartedRegardless(authenticated) == TRUE

\* start, lines 324-329: running is set only behind the authentication
Started(authenticated) == authenticated

BotStart ==
    /\ ~ call.running
    /\ call.fn # "start"
    /\ \E authenticated \in BOOLEAN :
         /\ authenticated =>
               call.environ.DERIBIT_API_KEY # "" /\ call.environ.DERIBIT_API_SECRET # ""
         /\ call' = [call EXCEPT !.fn = "start", !.authenticated = authenticated,
                                 !.running = Started(authenticated)]
    /\ UNCHANGED <<now, condors, built, open_condors, pc, botVars, exchVars, monVars, hist>>

\* run_daily_routine of the started bot; the scan may open a structure,
\* which places orders
BotDailyRoutine ==
    /\ call.running
    /\ \E opens \in BOOLEAN :
          call' = [call EXCEPT !.scanned = TRUE, !.ordered = @ \/ opens]
    /\ UNCHANGED <<now, condors, built, open_condors, pc, botVars, exchVars, monVars, hist>>

\* run_monitoring_routine of the started bot; the cycle may close a
\* structure, which places orders
BotMonitoringRoutine ==
    /\ call.running
    /\ \E closes \in BOOLEAN :
          call' = [call EXCEPT !.monitored = TRUE, !.ordered = @ \/ closes]
    /\ UNCHANGED <<now, condors, built, open_condors, pc, botVars, exchVars, monVars, hist>>

NextConfig ==
    \/ ConfigValidate
    \/ BotStart
    \/ BotDailyRoutine
    \/ BotMonitoringRoutine

SpecConfig == InitConfig /\ [][NextConfig]_vars

\* ------------------------------------------------------------------------
\* IronCondorBuilder: strike selection.  A quote of a chain is its option
\* kind, its strike, its delta (hundredths; NoValue when the quote has no
\* delta) and its mark price (thousandths of the underlying)
\* ------------------------------------------------------------------------
Abs(x) == IF x < 0 THEN 0 - x ELSE x

Quote(option_type, strike, delta, mark_price) ==
    [option_type |-> option_type, strike |-> strike, delta |-> delta,
     mark_price |-> mark_price]

\* variant: an entry goes in front of the entries with its own key
RECURSIVE InsertBeforeEqual(_, _)
InsertBeforeEqual(e, sorted) ==
    IF sorted = <<>> THEN <<e>>
    ELSE IF Head(sorted).key < e.key
         THEN <<Head(sorted)>> \o InsertBeforeEqual(e, Tail(sorted))
    ELSE <<e>> \o sorted

\* list.sort(key=...): a stable sort, here by insertion; an entry goes
\* behind the entries whose key is not greater than its own
RECURSIVE InsertByKey(_, _)
InsertByKey(e, sorted) ==
    IF sorted = <<>> THEN <<e>>
    ELSE IF Head(sorted).key <= e.key THEN <<Head(sorted)>> \o InsertByKey(e, Tail(sorted))
    ELSE <<e>> \o sorted

RECURSIVE SortByKey(_)
SortByKey(entries) ==
    IF entries = <<>> THEN <<>>
    ELSE InsertByKey(entries[Len(entries)], SortByKey(SubSeq(entries, 1, Len(entries) - 1)))

\* variant: every quote of the kind that has a delta is a candidate
DeltaCandidateAny(opt, target_delta, option_type, tolerance) ==
    /\ opt.option_type = option_type
    /\ opt.delta # NoValue

\* find_strike_by_delta, lines 71-85: the test a quote passes to become a
\* candidate
DeltaCandidate(opt, target_delta, option_type, tolerance) ==
    /\ opt.option_type = option_type
    /\ opt.delta # NoValue
    /\ Abs(Abs(opt.delta[1]) - Abs(target_delta)) <= tolerance

\* the candidates in chain order, each with its place in the chain and its
\* delta_diff as sort key
RECURSIVE DeltaCandidates(_, _, _, _, _)
DeltaCandidates(options, i, target_delta, option_type, tolerance) ==
    IF i > Len(options) THEN <<>>
    ELSE (IF DeltaCandidate(options[i], target_delta, option_type, tolerance)
          THEN <<[at |-> i,
                  key |-> Abs(Abs(options[i].delta[1]) - Abs(target_delta))]>>
          ELSE <<>>)
         \o DeltaCandidates(options, i + 1, target_delta, option_type, tolerance)

\* find_strike_by_delta: the place in the chain of the quote returned, 0
\* when None is returned
find_strike_by_delta(options, target_delta, option_type, tolerance) ==
    LET candidates == DeltaCandidates(options, 1, target_delta, option_type, tolerance)
    IN  IF candidates = <<>> THEN 0 ELSE SortByKey(candidates)[1].at

\* ------------------------------------------------------------------------
\* find_strike_by_delta on its own: one call on any chain of up to
\* MaxChain quotes, for any target, kind and tolerance
\* ------------------------------------------------------------------------
MaxChain == 3

InitDelta ==
    LET OptionTypes == {"put", "call"}
        DeltaValues == {NoValue, Some(-18), Some(-14), Some(-10), Some(10), Some(12)}
        DeltaQuotes == {Quote(k, 0, d, 0) : k \in OptionTypes, d \in DeltaValues}
    IN  /\ InitBot
        /\ call \in [fn : {"input"},
                     options : UNION {[1 .. n -> DeltaQuotes] : n \in 0 .. MaxChain},
                     target_delta : {-12, 12}, option_type : OptionTypes,
                     tolerance : {0, 2, 5}, at : {0}]

CallFindStrikeByDelta ==
    /\ call.fn = "input"
    /\ call' = [call EXCEPT !.fn = "find_strike_by_delta",
                            !.at = find_strike_by_delta(call.options, call.target_delta,
                                                        call.option_type, call.tolerance)]
    /\ UNCHANGED <<now, condors, built, open_condors, pc, botVars, exchVars, monVars, hist>>

SpecDelta == InitDelta /\ [][CallFindStrikeByDelta]_vars

\* ------------------------------------------------------------------------
\* find_protective_strike.  wing_width_percent is a fraction in the code and
\* a percentage here, so strikes are compared after multiplying by 100
\* ------------------------------------------------------------------------
wing_width_pct == 5

\* 100 * target_strike
TargetStrike100(short_strike, option_type, spot_price) ==
    IF option_type = "put" THEN 100 * short_strike - wing_width_pct * spot_price
    ELSE 100 * short_strike + wing_width_pct * spot_price

\* the candidates in chain order, each with its place in the chain and
\* 100 * abs(strike - target_strike) as sort key
RECURSIVE ProtectiveCandidates(_, _, _, _, _)
ProtectiveCandidates(options, i, short_strike, option_type, spot_price) ==
    LET target == TargetStrike100(short_strike, option_type, spot_price)
        opt == options[i]
        kept == IF option_type = "put"
                THEN /\ opt.option_type = "put"
                     /\ opt.strike < short_strike
                     /\ 100 * opt.strike <= target
                ELSE /\ opt.option_type = "call"
                     /\ opt.strike > short_strike
                     /\ 100 * opt.strike >= target
    IN  IF i > Len(options) THEN <<>>
        ELSE (IF kept THEN <<[at |-> i, key |-> Abs(100 * opt.strike - target)]>>
              ELSE <<>>)
             \o ProtectiveCandidates(options, i + 1, short_strike, option_type, spot_price)

\* find_protective_strike: the place in the chain of the quote returned, 0
\* when None is returned
find_protective_strike(options, short_strike, option_type, spot_price) ==
    LET candidates == ProtectiveCandidates(options, 1, short_strike, option_type, spot_price)
    IN  IF candidates = <<>> THEN 0 ELSE SortByKey(candidates)[1].at

\* one call of find_protective_strike on any chain of up to MaxChain quotes
InitProtect ==
    LET StrikeQuotes == {Quote(k, s, NoValue, 0) :
                            k \in {"put", "call"}, s \in {15, 17, 18, 22, 23, 25}}
    IN  /\ InitBot
        /\ call \in [fn : {"input"},
                     options : UNION {[1 .. n -> StrikeQuotes] : n \in 0 .. MaxChain},
                     short_strike : {19, 21}, option_type : {"put", "call"},
                     spot_price : {20, 40}, at : {0}]

CallFindProtectiveStrike ==
    /\ call.fn = "input"
    /\ call' = [call EXCEPT !.fn = "find_protective_strike",
                            !.at = find_protective_strike(call.options, call.short_strike,
                                                          call.option_type, call.spot_price)]
    /\ UNCHANGED <<now, condors, built, open_condors, pc, botVars, exchVars, monVars, hist>>

SpecProtect == InitProtect /\ [][CallFindProtectiveStrike]_vars

\* ------------------------------------------------------------------------
\* build_condor.  Amounts of money are exact fractions [num, den] in lowest
\* terms (floats in the code); fractions of the configuration are
\* percentages
\* ------------------------------------------------------------------------
short_delta_target == 12
delta_tolerance == 5
tp_ratio_pct == 55
sl_mult_pct == 120

RECURSIVE GCD(_, _)
GCD(a, b) == IF b = 0 THEN a ELSE GCD(b, a % b)

\* the fraction n / d, d > 0
Rat(n, d) == LET g == GCD(Abs(n), d) IN [num |-> n \div g, den |-> d \div g]

RatLess(x, y) == x.num * y.den < y.num * x.den

RatMul(x, y) == Rat(x.num * y.num, x.den * y.den)

\* variant: only a negative credit is refused
NoCreditStrict(credit_per_unit) == credit_per_unit < 0

\* line 195: the test on the credit
NoCredit(credit_per_unit) == credit_per_unit <= 0

\* variant: the loss is the width of the wider spread
SpreadWidthOnly(put_spread_width, call_spread_width, credit_per_unit) ==
    IF put_spread_width >= call_spread_width THEN put_spread_width ELSE call_spread_width

\* line 199: max_loss_per_unit
MaxLossPerUnit(put_spread_width, call_spread_width, credit_per_unit) ==
    (IF put_spread_width >= call_spread_width THEN put_spread_width ELSE call_spread_width)
    - credit_per_unit

\* variant: the size is not bounded
SizeAsComputed(size) == size

\* line 204: size = max(0.01, min(size, 10.0))
ClampSize(size) ==
    LET capped == IF RatLess(Rat(10, 1), size) THEN Rat(10, 1) ELSE size
    IN  IF RatLess(Rat(1, 100), capped) THEN capped ELSE Rat(1, 100)

CannotBuild == [built |-> FALSE]

\* build_condor: the structure returned, or CannotBuild for None.  The
\* amounts per unit are kept multiplied by 1000, the unit of the mark prices
build_condor(options_chain, spot_price, risk_per_condor) ==
    LET short_put_at == find_strike_by_delta(options_chain, 0 - short_delta_target,
                                             "put", delta_tolerance)
        short_call_at == find_strike_by_delta(options_chain, short_delta_target,
                                              "call", delta_tolerance)
        long_put_at == find_protective_strike(options_chain,
                           options_chain[short_put_at].strike, "put", spot_price)
        long_call_at == find_protective_strike(options_chain,
                            options_chain[short_call_at].strike, "call", spot_price)
        short_put == options_chain[short_put_at]
        short_call == options_chain[short_call_at]
        long_put == options_chain[long_put_at]
        long_call == options_chain[long_call_at]
        \* lines 155-185: ["greeks"]["delta"] of a quote without delta raises
        raised == \E q \in {short_put, long_put, short_call, long_call} : q.delta = NoValue
        credit_per_unit == (short_put.mark_price + short_call.mark_price
                            - long_put.mark_price - long_call.mark_price) * spot_price
        max_loss_per_unit == MaxLossPerUnit(1000 * (short_put.strike - long_put.strike),
                                            1000 * (long_call.strike - short_call.strike),
                                            credit_per_unit)
        size == ClampSize(Rat(1000 * risk_per_condor, max_loss_per_unit))
        credit_received == RatMul(Rat(credit_per_unit, 1000), size)
    IN  IF short_put_at = 0 THEN CannotBuild
        ELSE IF short_call_at = 0 THEN CannotBuild
        ELSE IF long_put_at = 0 THEN CannotBuild
        ELSE IF long_call_at = 0 THEN CannotBuild
        ELSE IF raised THEN CannotBuild
        ELSE IF NoCredit(credit_per_unit) THEN CannotBuild
        ELSE IF max_loss_per_unit <= 0 THEN CannotBuild
        ELSE [built |-> TRUE, spot_price |-> spot_price,
              long_put |-> long_put, short_put |-> short_put,
              short_call |-> short_call, long_call |-> long_call,
              credit_received |-> credit_received,
              max_loss |-> RatMul(Rat(max_loss_per_unit, 1000), size),
              max_profit |-> RatMul(Rat(credit_per_unit, 1000), size),
              size |-> size,
              take_profit_target |-> RatMul(credit_received, Rat(tp_ratio_pct, 100)),
              stop_loss_target |->
                  Rat(0 - RatMul(credit_received, Rat(sl_mult_pct, 100)).num,
                      RatMul(credit_received, Rat(sl_mult_pct, 100)).den),
              status |-> "open"]

\* the quotes the chains of the builder's calls are taken from, in the order
\* of the chain
QuotePool ==
    << Quote("put", 40000, NoValue, 1),
       Quote("put", 42500, Some(-5), 2),
       Quote("put", 44000, Some(-10), 5),
       Quote("put", 45000, Some(-12), 7),
       Quote("put", 52000, Some(-12), 90),
       Quote("call", 55000, Some(12), 7),
       Quote("call", 54000, Some(12), 90),
       Quote("call", 48000, Some(14), 9),
       Quote("call", 57500, Some(5), 2),
       Quote("call", 58000, Some(3), 20),
       Quote("call", 60000, Some(2), 12) >>

\* the quotes of the pool at the places of a set, in the order of the pool
RECURSIVE Pick(_, _)
Pick(places, i) ==
    IF i > Len(QuotePool) THEN <<>>
    ELSE (IF i \in places THEN <<QuotePool[i]>> ELSE <<>>) \o Pick(places, i + 1)

\* one call of build_condor: any chain taken from the pool, a spot price and
\* a risk budget from nothing to far above any possible loss
InitBuild ==
    /\ InitBot
    /\ \E places \in SUBSET (1 .. Len(QuotePool)) :
          call \in [fn : {"input"}, options_chain : {Pick(places, 1)},
                    spot_price : {48000, 50000},
                    risk_per_condor : {0, 10, 100, 100000},
                    ret : {CannotBuild}]

CallBuildCondor ==
    /\ call.fn = "input"
    /\ call' = [call EXCEPT !.fn = "build_condor",
                            !.ret = build_condor(call.options_chain, call.spot_price,
                                                 call.risk_per_condor)]
    /\ UNCHANGED <<now, condors, built, open_condors, pc, botVars, exchVars, monVars, hist>>

SpecBuild == InitBuild /\ [][CallBuildCondor]_vars

\* ------------------------------------------------------------------------
\* IronCondorStrategy.scan.  The answers of the exchange and of the
\* volatility filter are drawn; an answer the scan does not ask for is
\* recorded as not asked
\* ------------------------------------------------------------------------
NotAsked == "not asked"

\* the chains get_options_chain_with_greeks hands to the scan: no quote,
\* one quote, four quotes that make a structure, four that leave no credit
ScanChains == {<<>>, Pick({2}, 1), Pick({2, 4, 6, 9}, 1), Pick({2, 4, 6, 10}, 1)}

\* lines 305-344 for one currency: what the scan asked for and received,
\* and the structure built, if any
ScanOne(currency, spot_price, expiration, options, atm_iv, should_enter, risk_amount) ==
    LET seen == [currency |-> currency, spot_price |-> spot_price,
                 expiration |-> NotAsked, options |-> <<>>, atm_iv |-> NotAsked,
                 should_enter |-> NotAsked, condor |-> CannotBuild]
    IN  IF spot_price = NoValue THEN seen
        ELSE IF expiration = "None" THEN [seen EXCEPT !.expiration = expiration]
        ELSE IF options = <<>> THEN [seen EXCEPT !.expiration = expiration]
        ELSE IF atm_iv = "None"
             THEN [seen EXCEPT !.expiration = expiration, !.options = options,
                               !.atm_iv = atm_iv]
        ELSE IF should_enter = "False"
             THEN [seen EXCEPT !.expiration = expiration, !.options = options,
                               !.atm_iv = atm_iv, !.should_enter = should_enter]
        ELSE [seen EXCEPT !.expiration = expiration, !.options = options,
                          !.atm_iv = atm_iv, !.should_enter = should_enter,
                          !.condor = build_condor(options, spot_price[1], risk_amount)]

InitScan ==
    /\ InitBot
    /\ call = [fn |-> "none", can_open |-> FALSE, at |-> 1, seen |-> <<>>,
               signals |-> <<>>]

\* lines 294-300: the gate
ScanGate ==
    /\ call.fn = "none"
    /\ \E can_open \in BOOLEAN :
          call' = [call EXCEPT !.fn = IF can_open THEN "scan" ELSE "returned",
                               !.can_open = can_open]
    /\ UNCHANGED <<now, condors, built, open_condors, pc, botVars, exchVars, monVars, hist>>

\* variant: a currency that gives no signal ends the scan
ScanCurrencyUntilFailure ==
    /\ call.fn = "scan"
    /\ call.at <= Len(currencies)
    /\ \E spot_price \in {NoValue, Some(50000)}, expiration \in {"None", "27DEC24"},
          options \in ScanChains, atm_iv \in {"None", "iv"},
          should_enter \in {"False", "True"}, risk_amount \in {0, 100} :
          LET one == ScanOne(currencies[call.at], spot_price, expiration, options,
                             atm_iv, should_enter, risk_amount)
          IN  call' = [call EXCEPT
                  !.at = IF one.condor.built THEN @ + 1 ELSE Len(currencies) + 1,
                  !.seen = Append(@, one),
                  !.signals = IF one.condor.built
                              THEN Append(@, [type |-> "iron_condor",
                                              condor |-> one.condor,
                                              currency |-> one.currency])
                              ELSE @]
    /\ UNCHANGED <<now, condors, built, open_condors, pc, botVars, exchVars, monVars, hist>>

\* lines 302-344: one pass of the loop over the currencies
ScanCurrency ==
    /\ call.fn = "scan"
    /\ call.at <= Len(currencies)
    /\ \E spot_price \in {NoValue, Some(50000)}, expiration \in {"None", "27DEC24"},
          options \in ScanChains, atm_iv \in {"None", "iv"},
          should_enter \in {"False", "True"}, risk_amount \in {0, 100} :
          LET one == ScanOne(currencies[call.at], spot_price, expiration, options,
                             atm_iv, should_enter, risk_amount)
          IN  call' = [call EXCEPT
                  !.at = @ + 1,
                  !.seen = Append(@, one),
                  !.signals = IF one.condor.built
                              THEN Append(@, [type |-> "iron_condor",
                                              condor |-> one.condor,
                                              currency |-> one.currency])
                              ELSE @]
    /\ UNCHANGED <<now, condors, built, open_condors, pc, botVars, exchVars, monVars, hist>>

\* line 346
ScanReturn ==
    /\ call.fn = "scan"
    /\ call.at > Len(currencies)
    /\ call' = [call EXCEPT !.fn = "returned"]
    /\ UNCHANGED <<now, condors, built, open_condors, pc, botVars, exchVars, monVars, hist>>

NextScan ==
    \/ ScanGate
    \/ ScanCurrency
    \/ ScanReturn

SpecScan == InitScan /\ [][NextScan]_vars

\* ------------------------------------------------------------------------
\* RiskManager.get_current_equity and get_total_equity.  An answer of the
\* client is a value, None (the request failed) or an exception
\* ------------------------------------------------------------------------
MaxCoins == 2

\* the answers of get_account_summary and get_index_price for one currency
EquityAnswers ==
    [account : {"dict", "None", "raise"}, equity : 0 .. MaxCoins,
     index_price : {"price", "None", "raise"}, price : 1 .. MaxSpot]

\* variant: a currency that cannot be fetched counts as nothing
get_current_equity_or_nothing(initial_equity, a) ==
    IF a.account = "dict" /\ a.index_price = "price" THEN a.equity * a.price ELSE 0

\* get_current_equity: the try block returns equity * spot_price when both
\* answers are there, initial_equity otherwise; the except clause returns
\* initial_equity
get_current_equity(initial_equity, a) ==
    IF a.account = "raise" THEN initial_equity
    ELSE IF a.account = "None" THEN initial_equity
    ELSE IF a.index_price = "raise" THEN initial_equity
    ELSE IF a.index_price = "None" THEN initial_equity
    ELSE a.equity * a.price

\* get_total_equity: (get_current_equity("BTC") or 0) +
\* (get_current_equity("ETH") or 0)
get_total_equity(initial_equity, answers) ==
    LET btc_equity == get_current_equity(initial_equity, answers["BTC"])
        eth_equity == get_current_equity(initial_equity, answers["ETH"])
    IN  (IF btc_equity = 0 THEN 0 ELSE btc_equity)
        + (IF eth_equity = 0 THEN 0 ELSE eth_equity)

InitEquity ==
    /\ InitBot
    /\ call \in [fn : {"input"}, initial_equity : {0, 10},
                 answers : [{"BTC", "ETH"} -> EquityAnswers], total : {0}]

CallGetTotalEquity ==
    /\ call.fn = "input"
    /\ call' = [call EXCEPT !.fn = "get_total_equity",
                            !.total = get_total_equity(call.initial_equity, call.answers)]
    /\ UNCHANGED <<now, condors, built, open_condors, pc, botVars, exchVars, monVars, hist>>

SpecEquity == InitEquity /\ [][CallGetTotalEquity]_vars

\* ------------------------------------------------------------------------
\* StateManager.  A mapping is a set of <<key, value>> pairs with distinct
\* keys; a key or value is its Python type and its text.  The file holds
\* JSON, whose keys are strings and whose values have no datetime
\* ------------------------------------------------------------------------
StateKeys == {[t |-> "str", v |-> "id"], [t |-> "int", v |-> "1"]}
StateValues == {[t |-> "str", v |-> "open"], [t |-> "int", v |-> "1"],
                [t |-> "datetime", v |-> "2024-12-27 10:00:00"]}
StateMappings ==
    {m \in SUBSET (StateKeys \X StateValues) :
        \A p, q \in m : p[1] = q[1] => p = q}

\* json.dump(data, f, indent=4, default=str): a key that is not a string
\* is written as its text, a datetime as str(datetime)
JsonDump(data) ==
    {<<[t |-> "str", v |-> p[1].v],
       IF p[2].t = "datetime" THEN [t |-> "str", v |-> p[2].v] ELSE p[2]>> : p \in data}

NoFile == [exists |-> FALSE, content |-> {}]

InitState ==
    /\ InitBot
    /\ call = [fn |-> "none", file |-> NoFile, saved |-> {}, saves |-> 0,
               ok |-> TRUE, loaded |-> [none |-> TRUE, data |-> {}],
               before |-> [none |-> TRUE, data |-> {}], repeated |-> FALSE]

\* save_state: open(filepath, 'w') replaces the content; a failure to open
\* leaves the file as it was and returns False
SaveState ==
    /\ \E data \in StateMappings, opened \in BOOLEAN :
          call' = [call EXCEPT
              !.fn = "save_state",
              !.ok = opened,
              !.file = IF opened THEN [exists |-> TRUE, content |-> JsonDump(data)] ELSE @,
              !.saved = IF opened THEN data ELSE @,
              !.saves = IF opened THEN 1 ELSE @]
    /\ UNCHANGED <<now, condors, built, open_condors, pc, botVars, exchVars, monVars, hist>>

\* load_state: None for a missing file, otherwise json.load(f), the mapping
\* the JSON text of the file stands for
LoadState ==
    /\ call' = [call EXCEPT
           !.fn = "load_state",
           !.ok = TRUE,
           !.repeated = (call.fn = "load_state"),
           !.before = call.loaded,
           !.loaded = IF call.file.exists
                      THEN [none |-> FALSE, data |-> call.file.content]
                      ELSE [none |-> TRUE, data |-> {}]]
    /\ UNCHANGED <<now, condors, built, open_condors, pc, botVars, exchVars, monVars, hist>>

\* delete_state: True for a missing file, otherwise the outcome of
\* os.remove
DeleteState ==
    /\ \E removed \in BOOLEAN :
          call' = [call EXCEPT
              !.fn = "delete_state",
              !.ok = IF call.file.exists THEN removed ELSE TRUE,
              !.file = IF call.file.exists /\ removed THEN NoFile ELSE @,
              !.saves = IF call.file.exists /\ removed THEN 0 ELSE @]
    /\ UNCHANGED <<now, condors, built, open_condors, pc, botVars, exchVars, monVars, hist>>

NextState ==
    \/ SaveState
    \/ LoadState
    \/ DeleteState

SpecState == InitState /\ [][NextState]_vars

\* ------------------------------------------------------------------------
\* A structure that an earlier close_iron_condor closed in part: the call
\* returned False, so position_monitor.py:193-195 (and emergency_stop, which
\* removes nothing) left it tracked, and the legs of call.flat hold no
\* position any more.  The next monitor cycle or an emergency stop closes
\* the structure again.
\* ------------------------------------------------------------------------
InitReclose ==
    /\ now = 0
    /\ condors = [n \in 1 .. 1 |-> TrackedCondor(1)]
    /\ built = 1
    /\ open_condors = <<1>>
    /\ pc = "idle"
    /\ scanIdx = 0
    /\ cur = 0
    /\ leg = 0
    /\ attempt = 0
    /\ idx = 0
    /\ opened_orders = <<>>
    /\ ctx = "none"
    /\ all_closed = TRUE
    /\ result = None
    /\ \E flat \in SUBSET Legs \ {Legs} :
         /\ pos = [i \in Instruments |->
                     IF HeldBy(i, 1) /\ i[2] \notin flat THEN Sgn(OpenSide[i[2]]) ELSE 0]
         /\ call = [fn |-> "close_iron_condor", flat |-> flat]
    /\ working = [i \in Instruments |-> 0]
    /\ abandoned = 0
    /\ closeFails = 0
    /\ toCheck = <<>>
    /\ exitRes = NoExit
    /\ condors_to_close = <<>>
    /\ stats = NoStats
    /\ cycles = 0
    /\ hist = NoHist

NextReclose ==
    \/ Tick
    \/ CloseLeg
    \/ MonitorStart
    \/ MonitorCheck
    \/ MonitorFlag
    \/ MonitorCloseNext
    \/ MonitorAfterClose
    \/ MonitorReturn
    \/ EmergencyStop
    \/ EmergencyCloseNext
    \/ EmergencyAfterClose
    \/ EmergencyReturn

SpecReclose == InitReclose /\ [][NextReclose]_vars

\* ------------------------------------------------------------------------
\* The monitoring routine run again and again by the scheduler
\* (trading_bot.py:335, 349-350) over the tracked structures of SpecMon,
\* against an exchange that fails for a while and answers from then on
\* ------------------------------------------------------------------------
ExchangeDown == [fn |-> "exchange", up |-> FALSE]

\* structures tracked when the routine is followed over many cycles
LiveTracked == 1

InitLive ==
    /\ now = 0
    /\ condors = [n \in 1 .. LiveTracked |-> TrackedCondor(n)]
    /\ built = LiveTracked
    /\ open_condors = [n \in 1 .. LiveTracked |-> n]
    /\ pc = "idle"
    /\ scanIdx = 0
    /\ cur = 0
    /\ leg = 0
    /\ attempt = 0
    /\ idx = 0
    /\ opened_orders = <<>>
    /\ ctx = "none"
    /\ all_closed = TRUE
    /\ result = None
    /\ pos = [i \in Instruments |->
                Clamp(Sgn(OpenSide[i[2]]) * Cardinality({n \in 1 .. LiveTracked : HeldBy(i, n)}))]
    /\ working = [i \in Instruments |-> 0]
    /\ abandoned = 0
    /\ closeFails = 0
    /\ toCheck = <<>>
    /\ exitRes = NoExit
    /\ condors_to_close = <<>>
    /\ stats = NoStats
    /\ cycles = 0
    /\ hist = NoHist
    /\ call = ExchangeDown

\* the exchange starts to answer quote requests and to accept close
\* instructions, and keeps doing so
ExchangeRecovers ==
    /\ call = ExchangeDown
    /\ call' = [call EXCEPT !.up = TRUE]
    /\ UNCHANGED <<now, condors, built, open_condors, pc, botVars, exchVars, monVars, hist>>

\* schedule.run_pending starts run_monitoring_routine once more: the count
\* of cycles and of failed closes starts again
RunPending ==
    /\ pc = "idle"
    /\ cycles = MaxCycles
    /\ cycles' = 0
    /\ closeFails' = 0
    /\ UNCHANGED <<now, condors, built, open_condors, pc, botVars, pos, working, abandoned,
                   toCheck, exitRes, condors_to_close, stats, hist, call>>

\* _close_leg against that exchange: once it answers, an instruction of
\* each leg is accepted
CloseLegLive == CloseLeg /\ (call.up => closeFails' = closeFails)

\* the log line of line 160 against that exchange: once it answers, the
\* quotes are there
MonitorFlagLive == MonitorFlag /\ (call.up => stats'.errors = stats.errors)

\* one step of the monitoring routine
MonitorStep ==
    \/ RunPending
    \/ MonitorStart
    \/ MonitorCheck
    \/ MonitorFlagLive
    \/ MonitorCloseNext
    \/ CloseLegLive
    \/ MonitorAfterClose
    \/ MonitorReturn

NextLive ==
    \/ Tick
    \/ ExchangeRecovers
    \/ RunPending
    \/ MonitorStart
    \/ MonitorCheck
    \/ MonitorFlagLive
    \/ MonitorCloseNext
    \/ CloseLegLive
    \/ MonitorAfterClose
    \/ MonitorReturn

\* the scheduler loop runs every started routine to its end and starts the
\* next one; the exchange recovers
SpecLive ==
    /\ InitLive
    /\ [][NextLive]_vars
    /\ WF_vars(MonitorStep)
    /\ WF_vars(ExchangeRecovers)

\* ------------------------------------------------------------------------
\* One _close_leg call on its own: the requests it sends, in order.  An
\* answer is "ok", absent, or "raise" for a request that raised.
\* ------------------------------------------------------------------------
\* variant: the manual order also follows a close_position that raised
ManualAfterAny(answer) == answer # "ok"

\* lines 342-347: `if result: return True`, then the fallback; an
\* exception of close_position leaves the try block (line 367)
ManualAfter(answer) == answer = Absent

\* the requests of _close_leg from iteration a on, under the answers cs
RECURSIVE close_calls_from(_, _, _, _)
close_calls_from(cs, a, side, size) ==
    IF a >= max_retries THEN <<>>
    ELSE LET first == [fn |-> "close_position", amount |-> 0, price |-> "market",
                       answer |-> cs[a + 1][1]]
             order == [fn |-> side, amount |-> size, price |-> None,
                       answer |-> cs[a + 1][2]]
         IN  IF first.answer = "ok" THEN <<first>>
             ELSE IF ~ ManualAfter(first.answer)
             THEN <<first>> \o close_calls_from(cs, a + 1, side, size)
             ELSE IF order.answer = "ok" THEN <<first, order>>
             ELSE <<first, order>> \o close_calls_from(cs, a + 1, side, size)

\* the value _close_leg returns under the answers cs: a request that
\* raised counts as one that was not accepted
CloseReturned(cs, side, size) ==
    close_leg([a \in 1 .. max_retries |->
                  <<IF cs[a][1] = "ok" THEN "ok" ELSE Absent,
                    IF cs[a][1] # "raise" /\ cs[a][2] = "ok" THEN "ok" ELSE Absent>>],
              side, size, 0).closed

InitCloseCall ==
    /\ InitBot
    /\ call \in {[fn |-> "input", leg |-> l, rollback |-> rb, size |-> size, cs |-> cs,
                  calls |-> <<>>, closed |-> FALSE] :
                   l \in Legs, rb \in BOOLEAN, size \in 1 .. MaxQty,
                   cs \in [1 .. max_retries ->
                             {Absent, "ok", "raise"} \X {Absent, "ok", "raise"}]}

\* close_iron_condor (lines 92-97) or _rollback_orders (lines 383-386)
\* calls _close_leg for a leg
CallCloseLeg ==
    /\ call.fn = "input"
    /\ LET side == IF call.rollback THEN ReverseSide(OpenSide[call.leg])
                   ELSE CloseSide[call.leg]
       IN  call' = [call EXCEPT !.fn = "_close_leg",
                                !.calls = close_calls_from(call.cs, 0, side, call.size),
                                !.closed = CloseReturned(call.cs, side, call.size)]
    /\ UNCHANGED <<now, condors, built, open_condors, pc, botVars, exchVars, monVars, hist>>

SpecCloseCall == InitCloseCall /\ [][CallCloseLeg]_vars

\* ------------------------------------------------------------------------
\* DeribitClient._request on its own: one call under any outcome of each
\* of its HTTP attempts
\* ------------------------------------------------------------------------
\* default of the max_retries parameter of _request
request_max_retries == 3

\* an attempt returns a response ("ok"), times out, is answered with an
\* HTTP error status (raise_for_status), or fails to connect
Outcomes == {"ok", "timeout", "http_5xx", "http_4xx", "connection"}

\* variant: the 5xx responses are retried as the timeouts are
RetriedTransport(outcome) == outcome \in {"timeout", "http_5xx"}

\* the except clauses of lines 112-126: requests.exceptions.Timeout goes
\* on to the next attempt, any other RequestException returns None
Retried(outcome) == outcome = "timeout"

\* the loop of lines 101-128 after `tried` attempts; waits are the
\* arguments of time.sleep, seconds
RECURSIVE request_from(_, _, _)
request_from(outcomes, tried, waits) ==
    IF tried >= request_max_retries
    THEN [response |-> Absent, attempts |-> tried, waits |-> waits]
    ELSE IF outcomes[tried + 1] = "ok"
    THEN [response |-> "json", attempts |-> tried + 1, waits |-> waits]
    ELSE IF Retried(outcomes[tried + 1]) /\ tried < request_max_retries - 1
    THEN request_from(outcomes, tried + 1, Append(waits, 2 ^ tried))
    ELSE [response |-> Absent, attempts |-> tried + 1, waits |-> waits]

InitRequest ==
    /\ InitBot
    /\ call \in {[fn |-> "input", outcomes |-> os, response |-> Absent, attempts |-> 0,
                  waits |-> <<>>] : os \in [1 .. request_max_retries -> Outcomes]}

\* a GET request of a method of the client (every caller passes "GET")
CallRequest ==
    /\ call.fn = "input"
    /\ LET r == request_from(call.outcomes, 0, <<>>)
       IN  call' = [call EXCEPT !.fn = "_request", !.response = r.response,
                                !.attempts = r.attempts, !.waits = r.waits]
    /\ UNCHANGED <<now, condors, built, open_condors, pc, botVars, exchVars, monVars, hist>>

SpecRequest == InitRequest /\ [][CallRequest]_vars

\* ------------------------------------------------------------------------
\* The price of an opening order: _round_to_tick_size,
\* _get_aggressive_price, the choice of _execute_leg and the parameters
\* client.buy / client.sell send.  Prices are integers in units of 1e-8.
\* ------------------------------------------------------------------------
\* slippage_pct of OrderManager.__init__, percent
slippage_pct == 10

\* the step of round(price, 4) and of round(price, 8)
TickOf(instrument_name) == IF instrument_name = "ETH" THEN 1 ELSE 10000

\* variant: the price is cut down to the tick below
truncate_to_tick(num, den, instrument_name, tie_up) ==
    (num \div (den * TickOf(instrument_name))) * TickOf(instrument_name)

\* _round_to_tick_size of the price num / den.  The product the code
\* rounds is a binary floating-point number: where num / den lies midway
\* between two ticks its rounding goes either way (tie_up)
round_to_tick_size(num, den, instrument_name, tie_up) ==
    LET t == TickOf(instrument_name)
        q == num \div (den * t)
        r == num - q * den * t
    IN  IF 2 * r < den * t THEN q * t
        ELSE IF 2 * r > den * t THEN (q + 1) * t
        ELSE IF tie_up THEN (q + 1) * t ELSE q * t

\* a book is absent, or holds best_bid_price and best_ask_price, each -1
\* when the key is missing
NoBook == [present |-> FALSE, best_bid |-> -1, best_ask |-> -1]

\* _get_aggressive_price: the price, or nothing
get_aggressive_price(instrument_name, side, mark_price, book, tie_up) ==
    IF ~ book.present
    THEN Some(round_to_tick_size(mark_price, 1, instrument_name, tie_up))
    ELSE IF side = "buy"
    THEN IF book.best_ask > 0
         THEN Some(round_to_tick_size(book.best_ask * (100 + slippage_pct), 100,
                                      instrument_name, tie_up))
         ELSE IF mark_price # 0
         THEN Some(round_to_tick_size(mark_price * 11, 10, instrument_name, tie_up))
         ELSE NoValue
    ELSE IF book.best_bid > 0
         THEN Some(round_to_tick_size(book.best_bid, 1, instrument_name, tie_up))
         ELSE IF book.best_ask > 0
         THEN Some(round_to_tick_size(book.best_ask * (200 - slippage_pct), 200,
                                      instrument_name, tie_up))
         ELSE IF mark_price # 0
         THEN Some(round_to_tick_size(mark_price, 1, instrument_name, tie_up))
         ELSE NoValue

\* the price argument _execute_leg passes to client.buy / client.sell
\* (lines 222-236)
LegPrice(c) ==
    IF c.use_market_orders THEN NoValue
    ELSE IF c.use_aggressive_limits
    THEN LET price == get_aggressive_price(c.instrument_name, c.side, c.mark_price,
                                           c.book, c.tie_up)
         IN  IF price # NoValue /\ price[1] # 0 THEN price ELSE NoValue
    ELSE Some(round_to_tick_size(c.mark_price, 1, c.instrument_name, c.tie_up))

\* the parameters of the request: deribit_client.py:287-294; a price that
\* is absent or zero is not sent
OrderParams(side, price) ==
    IF price # NoValue /\ price[1] # 0
    THEN [fn |-> side, type |-> "limit", price |-> price]
    ELSE [fn |-> side, type |-> "market", price |-> NoValue]

InitPrice ==
    /\ InitBot
    /\ \E i \in {"BTC", "ETH", "other"} :
         call \in {[fn |-> "input", instrument_name |-> i, side |-> s,
                    mark_price |-> m, book |-> b, tie_up |-> u, use_market_orders |-> mo,
                    use_aggressive_limits |-> al, order |-> OrderParams(s, NoValue)] :
                     s \in {"buy", "sell"},
                     m \in {0, TickOf(i), 6 * TickOf(i) + 1},
                     b \in {NoBook} \cup
                           {[present |-> TRUE, best_bid |-> bid, best_ask |-> ask] :
                              bid \in {-1, 0, 5 * TickOf(i)},
                              ask \in {-1, 0, TickOf(i), 5 * TickOf(i), 6 * TickOf(i)}},
                     u \in BOOLEAN, mo \in BOOLEAN, al \in BOOLEAN}

\* one iteration of _execute_leg up to the request it sends
CallLegPrice ==
    /\ call.fn = "input"
    /\ call' = [call EXCEPT !.fn = "_execute_leg",
                            !.order = OrderParams(call.side, LegPrice(call))]
    /\ UNCHANGED <<now, condors, built, open_condors, pc, botVars, exchVars, monVars, hist>>

SpecPrice == InitPrice /\ [][CallLegPrice]_vars

\* Properties
\* ------------------------------------------------------------------------
\* the four instruments of the structure being opened or closed
CurInstruments == {Instr(cur, l) : l \in Legs}

\* ids of the structures flagged for closing
Flagged == {e[1] : e \in Range(condors_to_close)}

\* open_iron_condor returned to the scan
OpenReturned == pc = "open_ret"

\* C1: when open_iron_condor returns after leg k failed to fill within its
\* retry budget, a close instruction was issued for exactly the legs
\* 1 .. k-1, each on the reverse of its opening side, no order was placed
\* for a leg after k, and False is returned; and False is returned only so.
C1_RollbackExactlyOpenedLegs ==
    OpenReturned =>
        /\ result = "False" <=> hist.failedLeg # 0
        /\ hist.failedLeg # 0 =>
             /\ hist.closeSides =
                    {<<l, ReverseSide(OpenSide[l])>> : l \in 1 .. hist.failedLeg - 1}
             /\ hist.placedLegs = 1 .. hist.failedLeg
        /\ hist.failedLeg = 0 => hist.closeSides = {}

C1_Witness ==
    /\ OpenReturned
    /\ hist.failedLeg = 3
    /\ hist.closeSides = {<<1, "sell">>, <<2, "buy">>}

\* C2: when open_iron_condor returns False for the first structure ever
\* built and no close instruction was refused, the account holds no
\* position and no working order on the four instruments of the structure.
C2_NothingLeftAfterFailedOpen ==
    (OpenReturned /\ result = "False" /\ built = 1 /\ closeFails = 0) =>
        \A i \in CurInstruments : pos[i] = 0 /\ working[i] = 0

\* C3: a structure enters open_condors only in the step that follows a
\* True return of open_iron_condor for it, all four legs reported filled;
\* a structure whose open returned False does not enter it; and the
\* structure being opened is in none of the collections the monitor cycle
\* reads.
C3_Step ==
    /\ \A c \in Range(open_condors') \ Range(open_condors) :
         /\ OpenReturned
         /\ result = "True"
         /\ c = cur
         /\ opened_orders = <<1, 2, 3, 4>>
         /\ hist.filledSeen = Legs
    /\ (OpenReturned /\ result = "False") => cur \notin Range(open_condors')
    /\ (pc \in {"place", "open_ret"} \/ ctx = "rollback") =>
         cur \notin (Range(open_condors) \cup Range(toCheck) \cup Flagged)
    /\ Range(open_condors') \subseteq DOMAIN condors'

C3_TrackedOnlyAfterSuccessfulOpen == [][C3_Step]_vars

C3_Witness ==
    /\ OpenReturned
    /\ result = "False"
    /\ cur = 2
    /\ open_condors = <<1>>

\* C4: every leg open_iron_condor recorded as opened is a leg for which
\* get_order_state answered 'filled' within the polling window of an order
\* placed for it.
C4_SuccessOnlyIfReportedFilled ==
    (pc \in {"place", "open_ret"} \/ ctx = "rollback") =>
        Range(opened_orders) \subseteq hist.filledSeen

C4_Witness ==
    /\ OpenReturned
    /\ result = "True"
    /\ hist.filledSeen = Legs

\* C5: no leg gets more than max_retries order placements, no order is
\* polled more than max_wait times, no _close_leg call makes more than
\* max_retries attempts, and a leg whose budget is exhausted makes
\* open_iron_condor return False.
C5_BoundedRetries ==
    /\ hist.sent <= max_retries
    /\ ~ hist.over
    /\ attempt < max_retries
    /\ (OpenReturned /\ hist.sent = max_retries /\ hist.failedLeg # 0) => result = "False"

C5_Witness ==
    /\ OpenReturned
    /\ result = "False"
    /\ hist.sent = max_retries
    /\ hist.closeSides # {}

\* time to expiration of structure c, hours
Tte(c) == condors[c].expiration - now

\* C6: during the evaluation loop of a monitor cycle, every tracked
\* structure already evaluated whose time to expiration is below the
\* threshold is flagged for closing.
C6_ExpiringIsFlagged ==
    pc \in {"check", "checked"} =>
        \A c \in Range(open_condors) \ Range(toCheck) :
            Tte(c) < close_before_expiry_hours => c \in Flagged

\* the P&L of the structure of the call under the quotes of the call
CallPnlValue == get_condor_pnl(CallCondor, call.spot_price, call.books)

\* C7: below the expiry threshold check_exit_conditions returns (True,
\* 'expiry') whatever the quotes, and has sent no request for a quote.
C7_ExpiryFirst ==
    (call.fn = "check_exit_conditions" /\ CallTte < close_before_expiry_hours) =>
        call.exit = [should_exit |-> TRUE, reason |-> "expiry", fetches |-> 0]

C7_Witness ==
    /\ call.fn = "check_exit_conditions"
    /\ CallTte < close_before_expiry_hours
    /\ CallPnlValue # NoValue
    /\ CallPnlValue[1] >= CallCondor.take_profit_target
    /\ call.exit.reason = "expiry"

\* C8: get_condor_pnl returns None whenever the spot price or the order
\* book of one of the four legs is absent.
C8_UnavailableOnMissingQuote ==
    (call.fn = "get_condor_pnl"
        /\ (call.spot_price = 0 \/ \E l \in Legs : call.books[l] = -1)) =>
        call.pnl = NoValue

\* C9: at or above the expiry threshold, check_exit_conditions returns
\* take_profit exactly when the P&L is available and >= take_profit_target,
\* stop_loss exactly when it is available, below take_profit_target and
\* <= stop_loss_target, and no exit otherwise, an unavailable P&L included.
C9_ProfitThenLoss ==
    (call.fn = "check_exit_conditions" /\ ~ (CallTte < close_before_expiry_hours)) =>
        LET p == CallPnlValue
            tp == p # NoValue /\ p[1] >= CallCondor.take_profit_target
            sl == p # NoValue /\ ~ tp /\ p[1] <= CallCondor.stop_loss_target
        IN  /\ call.exit.reason = "take_profit" <=> tp
            /\ call.exit.reason = "stop_loss" <=> sl
            /\ call.exit.should_exit <=> (tp \/ sl)
            /\ ~ call.exit.should_exit => call.exit.reason = ""

C9_Witness ==
    /\ call.fn = "check_exit_conditions"
    /\ ~ (CallTte < close_before_expiry_hours)
    /\ CallPnlValue = Some(CallCondor.take_profit_target)
    /\ call.exit.reason = "take_profit"

\* C10: a structure with status 'closed' has its close time, close reason
\* and realized P&L set and is not in open_condors.
C10_ClosedIsSettledAndUntracked ==
    \A c \in DOMAIN condors :
        condors[c].status = "closed" =>
            /\ condors[c].close_time # NoValue
            /\ condors[c].close_reason # None
            /\ condors[c].realized_pnl # NoValue
            /\ c \notin Range(open_condors)

\* the parts of C10 that hold: no tracked structure is closed, and a
\* closed structure is neither written nor handed to close_iron_condor
C10_TrackedIsOpen ==
    \A c \in Range(open_condors) : condors[c].status = "open"

C10_ClosedStep ==
    \A c \in DOMAIN condors :
        condors[c].status = "closed" =>
            /\ c \in DOMAIN condors' => condors'[c] = condors[c]
            /\ cur' # c
            /\ c \notin Flagged'

C10_ClosedIsFinal == [][C10_ClosedStep]_vars

\* ------------------------------------------------------------------------
\* C11: when close_iron_condor fails for a flagged structure, the
\* structure is left in a state that differs from an untouched open
\* structure, it stays tracked, and the failure is counted in the errors
\* of the cycle's statistics
\* ------------------------------------------------------------------------
C11_Step ==
    (pc = "close_ret" /\ result = "False") =>
        /\ cur \in Range(open_condors')
        /\ stats'.errors = stats.errors + 1
        /\ condors'[cur] # condors[cur]

C11_FailedCloseIsMarked == [][C11_Step]_vars

\* ------------------------------------------------------------------------
\* C12: with the equity held constant, the sum of max_loss over the
\* tracked structures never exceeds equity * max_portfolio_risk_fraction
\* ------------------------------------------------------------------------
C12_ExposureWithinBudget ==
    100 * get_total_risk_exposure(condors, open_condors)
        <= call.equity * max_portfolio_risk_pct

\* ------------------------------------------------------------------------
\* C13: can_open_new_position denies exactly when current_exposure +
\* equity * risk_per_structure_fraction > equity *
\* max_portfolio_risk_fraction and allows otherwise, equality included;
\* with the equity fixed, a larger exposure never turns a denial into an
\* allowance
\* ------------------------------------------------------------------------
\* the tracked set with one more structure of max_loss m
OneMore(m) == condors @@ (0 :> NewCondor(0, currencies[1], now, m))

C13_GateAtBoundary ==
    call.fn = "validate_trade" =>
        /\ ~ call.can_open <=>
              100 * call.exposure + call.equity * risk_per_condor_pct
                  > call.equity * max_portfolio_risk_pct
        /\ \A m \in RiskLossChoices :
              ~ call.can_open =>
                  ~ can_open_new_position(call.equity, OneMore(m),
                                          Append(open_condors, 0))

\* the gate allowed a structure that exactly fills the budget
C13_Witness ==
    /\ call.fn = "validate_trade"
    /\ call.can_open
    /\ call.exposure > 0
    /\ 100 * call.exposure + call.equity * risk_per_condor_pct
           = call.equity * max_portfolio_risk_pct

\* ------------------------------------------------------------------------
\* C14: validate_trade(expected_max_loss) accepts if and only if
\* 0.2 * nominal <= expected_max_loss <= 1.5 * nominal, with nominal =
\* equity * risk_per_structure_fraction, and can_open_new_position allows;
\* open_iron_condor is invoked only for a structure validate_trade accepted
\* ------------------------------------------------------------------------
\* 100 times the nominal risk of one structure
Nominal100 == call.equity * risk_per_condor_pct

C14_ValidateThenOpen ==
    /\ call.fn = "validate_trade" =>
          (call.valid <=> /\ 2 * Nominal100 <= 1000 * call.expected_max_loss
                          /\ 1000 * call.expected_max_loss <= 15 * Nominal100
                          /\ call.can_open)
    /\ pc = "validated" =>
          /\ call.valid
          /\ condors[cur].max_loss = call.expected_max_loss

\* open_iron_condor is about to be invoked for a structure accepted at the
\* upper end of the range
C14_Witness ==
    /\ pc = "validated"
    /\ 1000 * call.expected_max_loss = 15 * Nominal100

\* ------------------------------------------------------------------------
\* C15: no two tracked structures reference the same instrument; each
\* leg's instrument belongs to exactly one tracked structure
\* ------------------------------------------------------------------------
C15_InstrumentsNotShared ==
    \A c \in Range(open_condors), d \in Range(open_condors) :
        c # d => \A l \in Legs, k \in Legs : Instr(c, l) # Instr(d, k)

\* ------------------------------------------------------------------------
\* C16: a configuration with max_portfolio_risk_fraction <
\* risk_per_structure_fraction is rejected at validation and at start-up,
\* so that no scan and no monitoring ever runs under it
\* ------------------------------------------------------------------------
C16_BadFractionsRejected ==
    call.environ.MAX_PORTFOLIO_RISK < call.environ.RISK_PER_CONDOR =>
        /\ ~ call.valid
        /\ ~ call.running
        /\ ~ call.scanned
        /\ ~ call.monitored

\* ------------------------------------------------------------------------
\* C17: emergency_stop calls cancel_all, then issues close_iron_condor for
\* every tracked structure without consulting exit conditions; a leg or a
\* structure that fails to close never stops the remaining structures from
\* being closed
\* ------------------------------------------------------------------------
AllLegSides == {<<l, CloseSide[l]>> : l \in Legs}

C17_Step ==
    \* the call: cancel_all, no close yet, every tracked structure listed,
    \* no exit condition evaluated
    /\ (pc = "idle" /\ pc' = "stop_next") =>
          /\ [n \in 1 .. Len(condors_to_close') |-> condors_to_close'[n][1]] = open_condors
          /\ pos' = pos
          /\ exitRes' = exitRes
          /\ \A i \in Instruments : working'[i] <= working[i]
    \* close_iron_condor is entered for the head of the list
    /\ (pc = "stop_next" /\ pc' = "close_leg") =>
          /\ cur' = Head(condors_to_close)[1]
          /\ condors_to_close' = condors_to_close
    \* it returns only after all four legs were attempted
    /\ pc' = "stop_ret" => hist'.closeSides = AllLegSides
    \* whatever it returned, the loop goes on with the rest of the list
    /\ pc = "stop_ret" =>
          /\ pc' = "stop_next"
          /\ condors_to_close' = Tail(condors_to_close)
    \* emergency_stop returns only when the list is exhausted
    /\ (pc = "stop_next" /\ pc' = "idle") => condors_to_close = <<>>

C17_EmergencyClosesEveryStructure == [][C17_Step]_vars

\* the close of the second structure is entered although a leg of the
\* first failed to close
C17_Witness ==
    /\ pc = "close_leg"
    /\ ctx = "stop"
    /\ cur = 2
    /\ idx = 1
    /\ closeFails = 1

\* ------------------------------------------------------------------------
\* C18: close_iron_condor attempts to close each of the four legs (long
\* put by sell, short put by buy, short call by buy, long call by sell)
\* whether or not an earlier leg failed, each leg with its own budget of
\* max_retries attempts, and returns True if and only if all four legs
\* were closed
\* ------------------------------------------------------------------------
\* no other structure of SpecMon has the instruments of structure c
OwnInstruments(c) ==
    Cardinality({n \in 1 .. MonTracked :
                    TrackedCondor(n).currency = condors[c].currency}) = 1

C18_AllLegsAttempted ==
    pc = "close_ret" =>
        /\ hist.closeSides = AllLegSides
        /\ result = "True" <=> hist.closeFailed = {}
        /\ result \in {"True", "False"}
        /\ ~ hist.over
        /\ ~ hist.short
        /\ OwnInstruments(cur) =>
              (result = "True" <=> \A l \in Legs : pos[Instr(cur, l)] = 0)

\* the first leg failed to close and the other three were attempted
C18_Witness ==
    /\ pc = "close_ret"
    /\ hist.closeFailed = {1}
    /\ hist.closeSides = AllLegSides
    /\ result = "False"

\* ------------------------------------------------------------------------
\* C19: monitor_positions evaluates the exit conditions of every structure
\* tracked at the start of the cycle before it issues any close; an error
\* or a failed close while handling one structure never prevents the
\* evaluation or the closing of the others; each such error increments
\* the cycle's error count
\* ------------------------------------------------------------------------
C19_Step ==
    \* the cycle takes every tracked structure for evaluation
    /\ (pc = "idle" /\ pc' = "check") =>
          /\ toCheck' = open_condors
          /\ condors_to_close' = <<>>
          /\ stats'.errors = 0
    \* nothing is closed while structures are evaluated
    /\ pc \in {"check", "checked"} =>
          /\ pos' = pos
          /\ open_condors' = open_condors
    \* an evaluated structure whose exit condition is met is flagged or
    \* counted as an error, and the evaluation goes on with the next one
    /\ pc = "checked" =>
          /\ toCheck' = Tail(toCheck)
          /\ pc' = IF Tail(toCheck) = <<>> THEN "close_next" ELSE "check"
          /\ IF exitRes.should_exit
             THEN \/ /\ condors_to_close' =
                           Append(condors_to_close, <<Head(toCheck), exitRes.reason>>)
                     /\ stats'.errors = stats.errors
                  \/ /\ condors_to_close' = condors_to_close
                     /\ stats'.errors = stats.errors + 1
             ELSE /\ condors_to_close' = condors_to_close
                  /\ stats'.errors = stats.errors
    \* the first close is entered when every structure has been evaluated
    /\ (pc = "close_next" /\ pc' = "close_leg") =>
          /\ toCheck = <<>>
          /\ cur' = Head(condors_to_close)[1]
    \* a failed close is counted and the rest of the flagged structures follow
    /\ pc = "close_ret" =>
          /\ pc' = "close_next"
          /\ condors_to_close' = Tail(condors_to_close)
          /\ result = "False" => stats'.errors = stats.errors + 1
    \* the cycle returns when every flagged structure was handled
    /\ (pc = "close_next" /\ pc' = "idle") => condors_to_close = <<>>

C19_EveryStructureHandled == [][C19_Step]_vars

\* the evaluation of one structure raised an error, and the close of
\* another structure, flagged in the same cycle, is entered
C19_Witness ==
    /\ pc = "close_leg"
    /\ ctx = "close"
    /\ stats.errors = 1
    /\ closeFails = 0
    /\ stats.closed_tp + stats.closed_sl + stats.closed_expiry = 0
    /\ stats.total_monitored = MonTracked

\* ------------------------------------------------------------------------
\* C20: the tracked set changes only by adding a structure after its
\* successful open and by removing a structure after its successful close
\* in a monitor cycle; failed opens, failed closes, risk checks, P&L
\* queries and emergency_stop leave the set and every structure's status
\* unchanged; the exposure reported to the Risk Manager equals the sum of
\* max_loss over the current set
\* ------------------------------------------------------------------------
RECURSIVE SumMaxLoss(_, _)
SumMaxLoss(objs, S) ==
    IF S = {} THEN 0
    ELSE LET c == CHOOSE x \in S : TRUE
         IN  objs[c].max_loss + SumMaxLoss(objs, S \ {c})

C20_Step ==
    /\ open_condors' # open_condors =>
          \/ /\ OpenReturned
             /\ result = "True"
             /\ cur \notin Range(open_condors)
             /\ open_condors' = Append(open_condors, cur)
          \/ /\ pc = "close_ret"
             /\ result = "True"
             /\ cur \in Range(open_condors)
             /\ Range(open_condors') = Range(open_condors) \ {cur}
    /\ \A c \in DOMAIN condors \cap DOMAIN condors' :
          condors'[c].status # condors[c].status =>
             pc = "close_ret" /\ result = "True" /\ c = cur
    /\ (pc \in {"stop_next", "stop_ret"} \/ ctx = "stop" \/ pc' = "stop_next") =>
          /\ open_condors' = open_condors
          /\ condors' = condors
    /\ get_total_risk_exposure(condors, open_condors)
          = SumMaxLoss(condors, Range(open_condors))
    /\ get_total_risk_exposure(condors', open_condors')
          = SumMaxLoss(condors', Range(open_condors'))

C20_TrackedSetFrame == [][C20_Step]_vars

\* emergency_stop closed a structure, which is still tracked and open
C20_Witness ==
    /\ pc = "stop_next"
    /\ closeFails = 0
    /\ Len(condors_to_close) < Len(open_condors)
    /\ \A c \in Range(open_condors) : condors[c].status = "open"
    /\ \E c \in Range(open_condors) : \A l \in Legs : pos[Instr(c, l)] = 0

\* ------------------------------------------------------------------------
\* find_strike_by_delta
\* ------------------------------------------------------------------------
\* the distance of a quote's delta from the target, both taken absolute
DeltaDiff(opt, target_delta) == Abs(Abs(opt.delta[1]) - Abs(target_delta))

\* the places of the quotes of the requested kind that have a delta within
\* tolerance of the target
WithinTolerance(c) ==
    {i \in 1 .. Len(c.options) :
        /\ c.options[i].option_type = c.option_type
        /\ c.options[i].delta # NoValue
        /\ DeltaDiff(c.options[i], c.target_delta) <= c.tolerance}

\* C21: find_strike_by_delta returns either nothing or a quote of the
\* requested kind whose absolute delta is within tolerance of the absolute
\* target, and it returns nothing exactly when no quote of that kind with a
\* delta lies within tolerance
C21_FoundWithinTolerance ==
    call.fn = "find_strike_by_delta" =>
        /\ call.at # 0 => call.at \in WithinTolerance(call)
        /\ call.at = 0 <=> WithinTolerance(call) = {}

C21_Witness ==
    /\ call.fn = "find_strike_by_delta"
    /\ call.at # 0
    /\ \E i \in 1 .. Len(call.options) :
          /\ call.options[i].option_type = call.option_type
          /\ call.options[i].delta # NoValue
          /\ DeltaDiff(call.options[i], call.target_delta) > call.tolerance

\* C22: the quote returned by find_strike_by_delta has the least distance
\* from the target among the same-kind quotes within tolerance, and among
\* the quotes with that least distance it is the first of the chain
C22_ClosestAndFirst ==
    (call.fn = "find_strike_by_delta" /\ call.at # 0) =>
        \A j \in WithinTolerance(call) :
            /\ DeltaDiff(call.options[call.at], call.target_delta)
                   <= DeltaDiff(call.options[j], call.target_delta)
            /\ DeltaDiff(call.options[j], call.target_delta)
                   = DeltaDiff(call.options[call.at], call.target_delta)
               => call.at <= j

C22_Witness ==
    /\ call.fn = "find_strike_by_delta"
    /\ call.at # 0
    /\ \E j \in WithinTolerance(call) :
          /\ j > call.at
          /\ DeltaDiff(call.options[j], call.target_delta)
                 = DeltaDiff(call.options[call.at], call.target_delta)
    /\ \E j \in WithinTolerance(call) :
          /\ j < call.at
          /\ DeltaDiff(call.options[j], call.target_delta)
                 > DeltaDiff(call.options[call.at], call.target_delta)

\* ------------------------------------------------------------------------
\* find_protective_strike
\* ------------------------------------------------------------------------
\* the places of the quotes of the requested kind whose strike is strictly
\* beyond the anchor in the protective direction
BeyondAnchor(c) ==
    {i \in 1 .. Len(c.options) :
        /\ c.options[i].option_type = c.option_type
        /\ IF c.option_type = "put" THEN c.options[i].strike < c.short_strike
           ELSE c.options[i].strike > c.short_strike}

TargetDistance(c, i) ==
    Abs(100 * c.options[i].strike
        - TargetStrike100(c.short_strike, c.option_type, c.spot_price))

\* C23: find_protective_strike returns, among all quotes of the kind whose
\* strike is strictly beyond the anchor in the protective direction, the one
\* whose strike is closest to anchor -/+ spot * wing_width_fraction, and it
\* returns nothing only when no quote of the kind lies strictly beyond the
\* anchor
C23_ClosestBeyondAnchor ==
    call.fn = "find_protective_strike" =>
        /\ call.at = 0 => BeyondAnchor(call) = {}
        /\ call.at # 0 =>
              /\ call.at \in BeyondAnchor(call)
              /\ \A j \in BeyondAnchor(call) :
                    TargetDistance(call, call.at) <= TargetDistance(call, j)

\* ------------------------------------------------------------------------
\* build_condor
\* ------------------------------------------------------------------------
\* the four selections of a call of build_condor, as places in its chain
Selections(c) ==
    LET sp == find_strike_by_delta(c.options_chain, 0 - short_delta_target, "put",
                                   delta_tolerance)
        sc == find_strike_by_delta(c.options_chain, short_delta_target, "call",
                                   delta_tolerance)
    IN  [short_put |-> sp, short_call |-> sc,
         long_put |-> IF sp = 0 THEN 0
                      ELSE find_protective_strike(c.options_chain,
                               c.options_chain[sp].strike, "put", c.spot_price),
         long_call |-> IF sc = 0 THEN 0
                       ELSE find_protective_strike(c.options_chain,
                                c.options_chain[sc].strike, "call", c.spot_price)]

\* 1000 * credit_per_unit of four legs at a spot price
CreditOf(long_put, short_put, short_call, long_call, spot_price) ==
    (short_put.mark_price + short_call.mark_price
     - long_put.mark_price - long_call.mark_price) * spot_price

\* 1000 * (max(put spread width, call spread width) - credit_per_unit)
LossOf(long_put, short_put, short_call, long_call, spot_price) ==
    LET pw == short_put.strike - long_put.strike
        cw == long_call.strike - short_call.strike
    IN  1000 * (IF pw >= cw THEN pw ELSE cw)
        - CreditOf(long_put, short_put, short_call, long_call, spot_price)

\* C24: build_condor returns nothing whenever one of the four selections
\* fails, or credit_per_unit <= 0, or max(put spread width, call spread
\* width) - credit_per_unit <= 0; every structure returned has
\* credit_received > 0, max_loss > 0, max_profit = credit_received,
\* take_profit_target = credit_received * tp_ratio and
\* stop_loss_target = -(credit_received * sl_mult)
C24_BuildRefusesOrIsConsistent ==
    call.fn = "build_condor" =>
        LET s == Selections(call)
            o == call.options_chain
            r == call.ret
            failed == s.short_put = 0 \/ s.short_call = 0 \/ s.long_put = 0 \/ s.long_call = 0
        IN  /\ failed => ~ r.built
            /\ (~ failed /\ CreditOf(o[s.long_put], o[s.short_put], o[s.short_call],
                                     o[s.long_call], call.spot_price) <= 0) => ~ r.built
            /\ (~ failed /\ LossOf(o[s.long_put], o[s.short_put], o[s.short_call],
                                   o[s.long_call], call.spot_price) <= 0) => ~ r.built
            /\ r.built =>
                  /\ r.credit_received.num > 0 /\ r.credit_received.den > 0
                  /\ r.max_loss.num > 0 /\ r.max_loss.den > 0
                  /\ r.max_profit = r.credit_received
                  /\ r.take_profit_target
                         = Rat(r.credit_received.num * tp_ratio_pct,
                               r.credit_received.den * 100)
                  /\ r.stop_loss_target
                         = Rat(0 - r.credit_received.num * sl_mult_pct,
                               r.credit_received.den * 100)

C24_Witness ==
    /\ call.fn = "build_condor"
    /\ call.ret.built
    /\ call.ret.long_put.strike = 44000
    /\ call.ret.long_call.strike = 60000

\* C25: the size of a structure returned by build_condor lies in
\* [0.01, 10.0] and equals risk_budget / max_loss_per_unit clamped to that
\* interval, for a budget of zero, a small and a very large one
C25_SizeClamped ==
    (call.fn = "build_condor" /\ call.ret.built) =>
        LET r == call.ret
            raw == Rat(1000 * call.risk_per_condor,
                       LossOf(r.long_put, r.short_put, r.short_call, r.long_call,
                              call.spot_price))
        IN  /\ r.size.den > 0
            /\ r.size.den <= 100 * r.size.num
            /\ r.size.num <= 10 * r.size.den
            /\ IF raw.num * 100 < raw.den THEN r.size = Rat(1, 100)
               ELSE IF raw.num > 10 * raw.den THEN r.size = Rat(10, 1)
               ELSE r.size = raw

C25_Witness ==
    /\ call.fn = "build_condor"
    /\ call.ret.built
    /\ call.risk_per_condor = 0
    /\ call.ret.size = Rat(1, 100)

\* C26: every structure returned by build_condor has
\* long_put.strike < short_put.strike <= spot <= short_call.strike <
\* long_call.strike
C26_StrikesOrdered ==
    (call.fn = "build_condor" /\ call.ret.built) =>
        /\ call.ret.long_put.strike < call.ret.short_put.strike
        /\ call.ret.short_put.strike <= call.ret.spot_price
        /\ call.ret.spot_price <= call.ret.short_call.strike
        /\ call.ret.short_call.strike < call.ret.long_call.strike

\* the end-to-end scenario: spot 50000, short legs at 45000 and 55000,
\* protective legs at 42500 and 57500, credit_per_unit 500,
\* max_loss_per_unit 2000, risk budget 100
Scenario ==
    /\ call.fn = "build_condor"
    /\ call.ret.built
    /\ call.spot_price = 50000
    /\ call.risk_per_condor = 100
    /\ call.ret.short_put.strike = 45000 /\ call.ret.short_call.strike = 55000
    /\ call.ret.long_put.strike = 42500 /\ call.ret.long_call.strike = 57500
    /\ CreditOf(call.ret.long_put, call.ret.short_put, call.ret.short_call,
                call.ret.long_call, call.spot_price) = 500 * 1000
    /\ LossOf(call.ret.long_put, call.ret.short_put, call.ret.short_call,
              call.ret.long_call, call.spot_price) = 2000 * 1000

\* C27 (as stated): in the scenario build_condor yields size 0.01,
\* credit_received 5, max_loss 20, take_profit_target 2.75 and
\* stop_loss_target -6
C27_ScenarioAsStated ==
    Scenario =>
        /\ call.ret.size = Rat(1, 100)
        /\ call.ret.credit_received = Rat(5, 1)
        /\ call.ret.max_loss = Rat(20, 1)
        /\ call.ret.take_profit_target = Rat(275, 100)
        /\ call.ret.stop_loss_target = Rat(-6, 1)

\* C27 (amended): in the scenario build_condor yields size 0.05, which lies
\* within [0.01, 10.0], credit_received 25, max_loss 100,
\* take_profit_target 13.75 and stop_loss_target -30
C27_ScenarioValues ==
    Scenario =>
        /\ call.ret.size = Rat(5, 100)
        /\ call.ret.credit_received = Rat(25, 1)
        /\ call.ret.max_loss = Rat(100, 1)
        /\ call.ret.take_profit_target = Rat(1375, 100)
        /\ call.ret.stop_loss_target = Rat(-30, 1)

C27_Witness ==
    /\ Scenario
    /\ Len(call.options_chain) = 4

\* ------------------------------------------------------------------------
\* IronCondorStrategy.scan
\* ------------------------------------------------------------------------
\* everything the scan needs for a signal succeeded for a scanned currency
AllSucceeded(one) ==
    /\ one.spot_price # NoValue
    /\ one.expiration = "27DEC24"
    /\ one.options # <<>>
    /\ one.atm_iv = "iv"
    /\ one.should_enter = "True"
    /\ one.condor.built

\* C28: scan returns no signal when can_open_new_position denies;
\* otherwise it returns at most one signal per configured currency, only
\* for a currency whose spot price, expiration, chain, volatility filter
\* and build_condor all succeeded, and a currency that fails gives no
\* signal and does not stop the scan of the next one
C28_ScanSignals ==
    /\ (call.fn = "returned" /\ ~ call.can_open) => (call.signals = <<>> /\ call.seen = <<>>)
    /\ \A i, j \in 1 .. Len(call.signals) :
          call.signals[i].currency = call.signals[j].currency => i = j
    /\ \A i \in 1 .. Len(call.signals) :
          \E k \in 1 .. Len(call.seen) :
              /\ call.seen[k].currency = call.signals[i].currency
              /\ call.seen[k].condor = call.signals[i].condor
              /\ AllSucceeded(call.seen[k])
    /\ \A k \in 1 .. Len(call.seen) :
          ~ AllSucceeded(call.seen[k]) =>
              \A i \in 1 .. Len(call.signals) :
                  call.signals[i].currency # call.seen[k].currency
    /\ (call.fn = "returned" /\ call.can_open) =>
          /\ Len(call.seen) = Len(currencies)
          /\ \A k \in 1 .. Len(currencies) : call.seen[k].currency = currencies[k]

C28_Witness ==
    /\ call.fn = "returned"
    /\ call.can_open
    /\ call.seen[1].options = Pick({2}, 1)
    /\ call.seen[1].should_enter = "True"
    /\ ~ call.seen[1].condor.built
    /\ Len(call.signals) = 1
    /\ call.signals[1].currency = "ETH"

\* ------------------------------------------------------------------------
\* TradingBot.start
\* ------------------------------------------------------------------------
\* C29: when authentication fails at start, start returns without running
\* a scan or a monitor cycle and without placing an order
C29_NoRunWithoutAuthentication ==
    (call.fn = "start" /\ ~ call.authenticated) =>
        /\ ~ call.running
        /\ ~ call.scanned
        /\ ~ call.monitored
        /\ ~ call.ordered

C29_Witness ==
    /\ call.fn = "start"
    /\ ~ call.authenticated
    /\ call.environ.DERIBIT_API_KEY # ""
    /\ call.environ.DERIBIT_API_SECRET # ""

\* ------------------------------------------------------------------------
\* get_total_equity
\* ------------------------------------------------------------------------
\* the currencies whose account summary and index price were both fetched
Fetched(c) ==
    {k \in {"BTC", "ETH"} :
        c.answers[k].account = "dict" /\ c.answers[k].index_price = "price"}

\* C30: get_total_equity always returns, and what it returns is the sum
\* over BTC and ETH of the currency's equity converted to USD, with the
\* configured initial equity in place of a currency whose account summary
\* or index price could not be fetched
C30_TotalEquity ==
    call.fn = "get_total_equity" =>
        LET usd(k) == IF k \in Fetched(call)
                      THEN call.answers[k].equity * call.answers[k].price
                      ELSE call.initial_equity
        IN  call.total = usd("BTC") + usd("ETH")

C30_Witness ==
    /\ call.fn = "get_total_equity"
    /\ call.initial_equity = 10
    /\ call.answers["BTC"].account = "raise"
    /\ call.answers["ETH"].account = "dict"
    /\ call.answers["ETH"].index_price = "price"
    /\ call.total = 10 + call.answers["ETH"].equity * call.answers["ETH"].price

\* ------------------------------------------------------------------------
\* StateManager
\* ------------------------------------------------------------------------
\* C31: a load of a file that was never saved returns the empty result and
\* does not create the file, a repeated load returns what the load before
\* it returned, a load after saves returns exactly the mapping saved last,
\* and delete_state of a missing file succeeds
C31_LoadReturnsLastSaved ==
    /\ (call.fn = "load_state" /\ call.saves = 0) => (call.loaded.none /\ ~ call.file.exists)
    /\ (call.fn = "load_state" /\ call.repeated) => call.loaded = call.before
    /\ (call.fn = "load_state" /\ call.saves > 0) =>
           (~ call.loaded.none /\ call.loaded.data = call.saved)
    /\ (call.fn = "delete_state" /\ ~ call.file.exists /\ call.saves = 0) => call.ok

\* ------------------------------------------------------------------------
\* Order of the legs of an open
\* ------------------------------------------------------------------------
\* C32: an open places its legs in the order long put (buy), short put
\* (sell), short call (sell), long call (buy), and places no order for a
\* leg before every leg in front of it was reported filled
C32_LegsInOrder ==
    /\ OpenSide = <<"buy", "sell", "sell", "buy">>
    /\ \A l \in hist.placedLegs :
          \A k \in 1 .. l - 1 : k \in hist.placedLegs /\ k \in hist.filledSeen
    /\ pc = "place" => opened_orders = [k \in 1 .. leg - 1 |-> k]

C32_Witness ==
    /\ pc = "place"
    /\ leg = 4
    /\ attempt = 1
    /\ hist.placedLegs = Legs
    /\ hist.filledSeen = {1, 2, 3}

\* ------------------------------------------------------------------------
\* Orders of one leg
\* ------------------------------------------------------------------------
\* C33: while the first structure is opened, an order that was not
\* reported filled is cancelled before its leg is retried: on every
\* instrument at most one order is working or filled, and the quantity
\* filled never exceeds the structure's size
C33_OneOrderPerLeg ==
    (built = 1 /\ cur = 1 /\ pc = "place") =>
        \A i \in CurInstruments :
            /\ working[i] + Abs(pos[i]) <= 1
            /\ Abs(pos[i]) <= condors[cur].size

\* C34: across monitor cycles and emergency stops no fallback market order
\* is placed for a leg that an earlier close attempt already closed: a leg
\* that was flat when the structure is closed again stays flat and no
\* reverse position is opened on it.
C34_FlatLegStaysFlat ==
    call.fn = "close_iron_condor" =>
        \A l \in call.flat : pos[<<condors[1].currency, l>>] = 0

\* the exit condition of tracked structure n that persists by itself: its
\* time to expiration is below the threshold
ExpiryDue(n) ==
    /\ n \in Range(open_condors)
    /\ (TrackedCondor(n).expiration - now) * 3600 < close_before_expiry_hours * 3600

\* C35: when monitor cycles keep running and the exchange eventually
\* answers quote requests and accepts close instructions, every tracked
\* structure whose exit condition persists is eventually closed and removed
\* from the tracked set, be the condition the expiry, which persists by
\* itself, or one that check_exit_conditions signals (expiry, take-profit
\* or stop-loss) cycle after cycle; a failed close leaves the structure
\* tracked, so that the next cycle evaluates it again, and a successful
\* close removes it.
C35_EventuallyClosed ==
    /\ \A n \in 1 .. LiveTracked : ExpiryDue(n) ~> (n \notin Range(open_condors))
    /\ \A n \in 1 .. LiveTracked :
          []<>(pc = "checked" /\ Head(toCheck) = n /\ exitRes.should_exit)
              => <>(n \notin Range(open_condors))
    /\ [][(pc = "close_ret" /\ result = "False") => open_condors' = open_condors]_vars
    /\ [][(pc = "close_ret" /\ pc' # pc /\ result = "True")
            => cur \notin Range(open_condors')]_vars

C35_Witness ==
    /\ call.fn = "exchange"
    /\ call.up
    /\ pc = "close_next"
    /\ stats.closed_expiry = 1
    /\ open_condors = <<>>
    /\ \E i \in Instruments : pos[i] * Sgn(OpenSide[i[2]]) < 0

\* C36: during rollback a failure while closing one filled leg does not
\* prevent the close attempt for the remaining filled legs, and
\* open_iron_condor still returns failure: when open_iron_condor returns
\* after a leg failed, it returns False and _close_leg was called for
\* every leg recorded as filled, whichever of them failed to close.
C36_RollbackCompletes ==
    (pc = "open_ret" /\ hist.failedLeg # 0) =>
        /\ result = "False"
        /\ {e[1] : e \in hist.closeSides} = Range(opened_orders)
        /\ hist.closeFailed \subseteq Range(opened_orders)

C36_Witness ==
    /\ pc = "open_ret"
    /\ hist.failedLeg = 4
    /\ hist.closeFailed = {1}
    /\ {e[1] : e \in hist.closeSides} = {1, 2, 3}
    /\ result = "False"

\* C37: each close attempt of a leg first calls close_position; a manual
\* market order, on the side opposite to the leg's opening side and for
\* the structure's size, is placed only when close_position returned absent
\* in the same attempt; the leg is reported closed as soon as either call
\* is accepted, and only then.
C37_ClosePositionFirst ==
    call.fn = "_close_leg" =>
        LET t == call.calls
        IN  /\ t # <<>>
            /\ t[1].fn = "close_position"
            /\ \A k \in 1 .. Len(t) :
                  /\ t[k].fn # "close_position" =>
                        /\ k > 1
                        /\ t[k - 1].fn = "close_position"
                        /\ t[k - 1].answer = Absent
                        /\ t[k].fn = ReverseSide(OpenSide[call.leg])
                        /\ t[k].amount = call.size
                        /\ t[k].price = None
                        /\ k < Len(t) => t[k + 1].fn = "close_position"
                  /\ k < Len(t) => t[k].answer # "ok"
            /\ call.closed <=> t[Len(t)].answer = "ok"
            /\ Cardinality({k \in 1 .. Len(t) : t[k].fn = "close_position"}) <= max_retries

C37_Witness ==
    /\ call.fn = "_close_leg"
    /\ call.closed
    /\ Len(call.calls) = 4
    /\ call.calls[1].answer = "raise"
    /\ call.calls[3].answer = Absent
    /\ call.calls[4].fn = "buy"

\* structures counted as closed by the statistics of the running cycle
ClosedCount == stats.closed_tp + stats.closed_sl + stats.closed_expiry

\* C38: in every monitor cycle total_monitored is the size of the tracked
\* set at the start of the cycle, and closed_tp + closed_sl + closed_expiry
\* is the number of structures removed from the tracked set during the
\* cycle: throughout the cycle, and when the statistics are returned, the
\* size of the tracked set is total_monitored minus that sum.
C38_StatsAccount ==
    /\ [](pc \in {"check", "checked", "close_next", "close_leg", "close_ret"} =>
            Len(open_condors) = stats.total_monitored - ClosedCount)
    /\ [][(pc = "idle" /\ pc' = "check") =>
            /\ stats'.total_monitored = Len(open_condors)
            /\ open_condors' = open_condors]_vars
    /\ [][(pc = "close_ret" /\ open_condors' # open_condors) =>
            /\ Len(open_condors') = Len(open_condors) - 1
            /\ ClosedCount' = ClosedCount + 1]_vars

C38_Witness ==
    /\ pc = "close_next"
    /\ condors_to_close = <<>>
    /\ stats.total_monitored = 3
    /\ stats.closed_tp = 1
    /\ stats.closed_expiry = 1
    /\ stats.errors = 1
    /\ Len(open_condors) = 1

\* C39 as stated: a request is attempted at most max_retries times;
\* timeouts and 5xx responses are retried with exponentially growing waits
\* and, once the budget is used up, the call returns absent.  In
\* particular an attempt that timed out or was answered 5xx is followed by
\* another attempt while the budget lasts.
C39_TransportRetried ==
    call.fn = "_request" =>
        /\ call.attempts <= request_max_retries
        /\ \A k \in 1 .. call.attempts :
              (call.outcomes[k] \in {"timeout", "http_5xx"} /\ k < request_max_retries)
                  => call.attempts > k

\* C39: a request is attempted at most max_retries times; a timeout is
\* retried, after waits of 1 s, 2 s, ... doubling at each attempt; any
\* other request error (HTTP error status, 5xx included, or connection
\* failure) ends the call at once; the call returns the response of the
\* first attempt that got one, and absent in every other case.
C39_TimeoutsRetried ==
    call.fn = "_request" =>
        /\ call.attempts \in 1 .. request_max_retries
        /\ \A k \in 1 .. call.attempts - 1 : call.outcomes[k] = "timeout"
        /\ call.outcomes[call.attempts] = "timeout" => call.attempts = request_max_retries
        /\ call.waits = [k \in 1 .. call.attempts - 1 |-> 2 ^ (k - 1)]
        /\ call.response = IF call.outcomes[call.attempts] = "ok" THEN "json" ELSE Absent

C39_Witness ==
    /\ call.fn = "_request"
    /\ call.outcomes[1] = "timeout"
    /\ call.outcomes[2] = "http_5xx"
    /\ call.attempts = 2
    /\ call.waits = <<1>>
    /\ call.response = Absent

\* the price p is on the tick grid of the instrument and at most half a
\* tick away from num / den
RoundedTo(p, num, den, instrument_name) ==
    /\ p % TickOf(instrument_name) = 0
    /\ 2 * Abs(p * den - num) <= den * TickOf(instrument_name)

\* C40: with aggressive limits, the limit price of a buy is best-ask x
\* (1 + slippage) and that of a sell is best-bid, or best-ask x
\* (1 - slippage / 2) when there is no positive bid, each rounded to the
\* instrument's tick size; when market orders are requested, no price is
\* sent with the order.
C40_AggressivePrice ==
    call.fn = "_execute_leg" =>
        LET o == call.order
            b == call.book
            i == call.instrument_name
            aggressive == ~ call.use_market_orders /\ call.use_aggressive_limits /\ b.present
        IN  /\ call.use_market_orders => o.type = "market" /\ o.price = NoValue
            /\ o.type = "market" <=> o.price = NoValue
            /\ (aggressive /\ call.side = "buy" /\ b.best_ask > 0) =>
                  /\ o.type = "limit"
                  /\ RoundedTo(o.price[1], b.best_ask * 110, 100, i)
            /\ (aggressive /\ call.side = "sell" /\ b.best_bid > 0) =>
                  /\ o.type = "limit"
                  /\ o.price = Some(b.best_bid)
            /\ (aggressive /\ call.side = "sell" /\ b.best_bid <= 0 /\ b.best_ask > 0) =>
                  /\ o.type = "limit"
                  /\ RoundedTo(o.price[1], b.best_ask * 95, 100, i)

C40_Witness ==
    /\ call.fn = "_execute_leg"
    /\ call.instrument_name = "BTC"
    /\ call.side = "sell"
    /\ ~ call.use_market_orders
    /\ call.use_aggressive_limits
    /\ call.book = [present |-> TRUE, best_bid |-> 0, best_ask |-> 60000]
    /\ call.order = [fn |-> "sell", type |-> "limit", price |-> Some(60000)]

====
